---------------------------- MODULE Spec2Model ----------------------------
(***************************************************************************)
(* Position-sizing and guardrail engine of the ATM helper tools:           *)
(*   src/topstepx_atm_gui.py      (TopstepX calculator, "tsx")             *)
(*   src/atm_gui_with_atr_v15.py  (CME calculator with ATR buffer, "v15")  *)
(*                                                                         *)
(* Numbers.  The Python code computes with floats parsed from the entry    *)
(* fields.  The model computes with exact rationals <<n, d>> (d > 0, in    *)
(* lowest terms) over the decimal values typed into the fields; binary     *)
(* floating-point representation error is not modelled.  int() truncates   *)
(* toward zero, // floors, round() rounds half to even, as in Python 3.    *)
(*                                                                         *)
(* Entry fields.  The text of an entry field is modelled by its lexical    *)
(* class and value: [k |-> "blank" | "junk" | "int" | "dec", v |-> <<n,d>>]*)
(* "int" is an integer literal, "dec" a literal with a decimal point       *)
(* (accepted by float() but not by int()), "blank" is empty or whitespace, *)
(* "junk" is any text neither int() nor float() accepts.                   *)
(***************************************************************************)
EXTENDS Integers, Sequences, FiniteSets, TLC

VARIABLES
    tsx,      \* TopstepX tool: the StringVars of its entry fields and combo boxes
    tsx_out,  \* TopstepX tool: content of the `out` Text widget
    tsx_box,  \* TopstepX tool: how the last calc() ended ("" before any call)
    tsx_reg,  \* TopstepX tool: the module-level dicts MARKETS and TOPSTEPX_ACCOUNTS
    tsx_labels, \* TopstepX tool: text of the daily_loss_value / trailing_value labels
    tsx_clip, \* TopstepX tool: what copy_out() last put on the clipboard
    tsx_accepted, \* history: the field values of the last calc() that wrote `out`
    v15,      \* v15 tool: the StringVars of its entry fields and combo boxes
    v15_out,  \* v15 tool: content of the `out` Text widget
    v15_box,  \* v15 tool: how the last calc() ended
    mes,      \* mes tool: contract_var and the texts of risk_entry and zone_entry
    mes_out,  \* mes tool: content of the result_text widget
    mes_box,  \* mes tool: how the last calculate() ended ("" before any call)
    args,     \* function harness: the call (function name and arguments)
    ret,      \* function harness: the value returned ("none" before the call)
    state,    \* portal: MainWindow.state, the AppState (vendor, username, client, claims)
    stack,    \* portal: the current page of MainWindow.stack
    attachments, \* portal: AttachmentManager.attachments of the claim form
    list_widget, \* portal: the items of AttachmentManager.list_widget
    app_box   \* portal: titles of the boxes the last handler opened

vars == <<tsx, tsx_out, tsx_box, tsx_reg, tsx_labels, tsx_clip, tsx_accepted,
          v15, v15_out, v15_box, mes, mes_out, mes_box, args, ret,
          state, stack, attachments, list_widget, app_box>>

\* the calculators' state
calc_vars == <<tsx, tsx_out, tsx_box, tsx_reg, tsx_labels, tsx_clip, tsx_accepted,
               v15, v15_out, v15_box, mes, mes_out, mes_box, args, ret>>

\* the portal's state
app_vars == <<state, stack, attachments, list_widget, app_box>>

\* the mes tool's state
mes_vars == <<mes, mes_out, mes_box>>

\* what calc() of the TopstepX tool and the function calls leave alone
tsx_side == <<tsx_reg, tsx_labels, tsx_clip>>

---------------------------------------------------------------------------
(* Bounds of the checked instances                                         *)

\* zone widths 1..MaxZW are typed into the calculators (besides 0, 18 and 2500)
MaxZW == 1
\* zone widths 1..MaxTrailZW are passed to get_trail_settings / trail_freqs
MaxTrailZW == 40
\* realized profits range over 500 * (-2 .. MaxProfitSteps), and a cent below each
MaxProfitSteps == 20
\* rows selected at once in the attachment list of the portal
MaxSelected == 2
\* attachments handed to create_claim when it is called on its own
MaxHanded == 9

---------------------------------------------------------------------------
(* Exact arithmetic standing for Python's float arithmetic                 *)

Abs(x) == IF x < 0 THEN -x ELSE x

RECURSIVE GCD(_, _)
GCD(a, b) == IF b = 0 THEN a ELSE GCD(b, a % b)

\* the rational n/d (d # 0) in lowest terms with a positive denominator
Rat(n, d) ==
    LET g == GCD(Abs(n), Abs(d))
        s == IF d < 0 THEN -1 ELSE 1
    IN  <<(s * n) \div g, (s * d) \div g>>

R(n) == <<n, 1>>

RMul(a, b) == Rat(a[1] * b[1], a[2] * b[2])

\* Python a / b on floats, b # 0
RDiv(a, b) == Rat(a[1] * b[2], a[2] * b[1])

RLt(a, b) == a[1] * b[2] < b[1] * a[2]
RLe(a, b) == a[1] * b[2] <= b[1] * a[2]
RGt(a, b) == RLt(b, a)
RGe(a, b) == RLe(b, a)

\* math.floor: the denominator is positive, so \div is the floor
Floor(a) == a[1] \div a[2]

\* Python int(float): truncation toward zero
Trunc(a) == IF a[1] >= 0 THEN a[1] \div a[2] ELSE -((-a[1]) \div a[2])

\* Python 3 round(float): nearest integer, ties to the even one
Round(a) ==
    LET f  == Floor(a)
        r2 == 2 * (a[1] - f * a[2])     \* twice the fractional part, times d
    IN  IF r2 < a[2] THEN f
        ELSE IF r2 > a[2] THEN f + 1
        ELSE IF f % 2 = 0 THEN f ELSE f + 1

\* Python a // b on floats (b # 0): floor of the quotient, as a float
FloorDiv(a, b) == R(Floor(RDiv(a, b)))

Max2(a, b) == IF a >= b THEN a ELSE b

RECURSIVE MinOf(_)
\* Python min(x1, ..., xn) over a non-empty tuple of ints
MinOf(s) ==
    IF Len(s) = 1 THEN s[1]
    ELSE LET m == MinOf(Tail(s)) IN IF s[1] <= m THEN s[1] ELSE m

---------------------------------------------------------------------------
(* Entry-field texts and their parsing                                     *)

Blank == [k |-> "blank", v |-> R(0)]
Junk == [k |-> "junk", v |-> R(0)]
IntText(n) == [k |-> "int", v |-> R(n)]
DecText(n, d) == [k |-> "dec", v |-> Rat(n, d)]

\* s.strip() is non-empty
Stripped(t) == t.k # "blank"
\* int(s) returns (otherwise it raises ValueError)
IntOk(t) == t.k = "int"
\* float(s) returns (otherwise it raises ValueError)
FloatOk(t) == t.k \in {"int", "dec"}
\* the value of int(s), an integer
PyInt(t) == Trunc(t.v)
\* the value of float(s)
PyFloat(t) == t.v

---------------------------------------------------------------------------
(* Registries                                                              *)

\* tick_value is USD per minimum tick; ticks_per_point ticks make 1.00 of price
MARKETS ==
    [m \in {"MES (Micro ES)", "ES  (E-mini ES)", "MNQ (Micro NQ)", "NQ  (E-mini NQ)",
            "MYM (Micro YM)", "YM  (E-mini YM)", "M2K (Micro RTY)", "RTY (E-mini RTY)",
            "MCL (Micro WTI Crude)", "CL  (WTI Crude Oil)",
            "MGC (Micro Gold)", "GC  (Gold)", "SIL (Micro Silver)", "SI  (Silver)",
            "HG  (Copper)",
            "ZT (2Y Note)", "ZF (5Y Note)", "ZN (10Y Note)", "ZB (30Y Bond)",
            "M6E (Micro EUR/USD)", "6E  (Euro FX)"} |->
        CASE m = "MES (Micro ES)"        -> [ticks_per_point |-> 4,     tick_value |-> Rat(125, 100)]
          [] m = "ES  (E-mini ES)"       -> [ticks_per_point |-> 4,     tick_value |-> Rat(1250, 100)]
          [] m = "MNQ (Micro NQ)"        -> [ticks_per_point |-> 4,     tick_value |-> Rat(50, 100)]
          [] m = "NQ  (E-mini NQ)"       -> [ticks_per_point |-> 4,     tick_value |-> Rat(500, 100)]
          [] m = "MYM (Micro YM)"        -> [ticks_per_point |-> 1,     tick_value |-> Rat(50, 100)]
          [] m = "YM  (E-mini YM)"       -> [ticks_per_point |-> 1,     tick_value |-> Rat(500, 100)]
          [] m = "M2K (Micro RTY)"       -> [ticks_per_point |-> 10,    tick_value |-> Rat(50, 100)]
          [] m = "RTY (E-mini RTY)"      -> [ticks_per_point |-> 10,    tick_value |-> Rat(500, 100)]
          [] m = "MCL (Micro WTI Crude)" -> [ticks_per_point |-> 100,   tick_value |-> Rat(100, 100)]
          [] m = "CL  (WTI Crude Oil)"   -> [ticks_per_point |-> 100,   tick_value |-> Rat(1000, 100)]
          [] m = "MGC (Micro Gold)"      -> [ticks_per_point |-> 10,    tick_value |-> Rat(100, 100)]
          [] m = "GC  (Gold)"            -> [ticks_per_point |-> 10,    tick_value |-> Rat(1000, 100)]
          [] m = "SIL (Micro Silver)"    -> [ticks_per_point |-> 200,   tick_value |-> Rat(500, 100)]
          [] m = "SI  (Silver)"          -> [ticks_per_point |-> 200,   tick_value |-> Rat(2500, 100)]
          [] m = "HG  (Copper)"          -> [ticks_per_point |-> 2000,  tick_value |-> Rat(1250, 100)]
          [] m = "ZT (2Y Note)"          -> [ticks_per_point |-> 128,   tick_value |-> Rat(78125, 10000)]
          [] m = "ZF (5Y Note)"          -> [ticks_per_point |-> 128,   tick_value |-> Rat(78125, 10000)]
          [] m = "ZN (10Y Note)"         -> [ticks_per_point |-> 64,    tick_value |-> Rat(15625, 1000)]
          [] m = "ZB (30Y Bond)"         -> [ticks_per_point |-> 32,    tick_value |-> Rat(3125, 100)]
          [] m = "M6E (Micro EUR/USD)"   -> [ticks_per_point |-> 20000, tick_value |-> Rat(125, 100)]
          [] m = "6E  (Euro FX)"         -> [ticks_per_point |-> 20000, tick_value |-> Rat(625, 100)]]

\* the v15 tool's own table
V15_MARKETS ==
    [m \in {"MES (Micro ES)", "ES  (E-mini ES)", "MNQ (Micro NQ)", "NQ  (E-mini NQ)",
            "MYM (Micro YM)", "YM  (E-mini YM)", "M2K (Micro RTY)", "RTY (E-mini RTY)",
            "MCL (Micro WTI Crude)", "CL  (WTI Crude Oil)", "MGC (Micro Gold)",
            "GC  (Gold)", "SIL (Micro Silver)", "SI  (Silver)", "HG  (Copper)",
            "ZT (2Y Note)", "ZF (5Y Note)", "ZN (10Y Note)", "ZB (30Y Bond)",
            "M6E (Micro EUR/USD)", "6E  (Euro FX)"} |->
        CASE m = "MES (Micro ES)" -> [ticks_per_point |-> 4, tick_value |-> Rat(125, 100)]
          [] m = "ES  (E-mini ES)" -> [ticks_per_point |-> 4, tick_value |-> Rat(1250, 100)]
          [] m = "MNQ (Micro NQ)" -> [ticks_per_point |-> 4, tick_value |-> Rat(50, 100)]
          [] m = "NQ  (E-mini NQ)" -> [ticks_per_point |-> 4, tick_value |-> Rat(500, 100)]
          [] m = "MYM (Micro YM)" -> [ticks_per_point |-> 1, tick_value |-> Rat(50, 100)]
          [] m = "YM  (E-mini YM)" -> [ticks_per_point |-> 1, tick_value |-> Rat(500, 100)]
          [] m = "M2K (Micro RTY)" -> [ticks_per_point |-> 10, tick_value |-> Rat(50, 100)]
          [] m = "RTY (E-mini RTY)" -> [ticks_per_point |-> 10, tick_value |-> Rat(500, 100)]
          [] m = "MCL (Micro WTI Crude)" -> [ticks_per_point |-> 100, tick_value |-> Rat(100, 100)]
          [] m = "CL  (WTI Crude Oil)" -> [ticks_per_point |-> 100, tick_value |-> Rat(1000, 100)]
          [] m = "MGC (Micro Gold)" -> [ticks_per_point |-> 10, tick_value |-> Rat(100, 100)]
          [] m = "GC  (Gold)" -> [ticks_per_point |-> 10, tick_value |-> Rat(1000, 100)]
          [] m = "SIL (Micro Silver)" -> [ticks_per_point |-> 200, tick_value |-> Rat(500, 100)]
          [] m = "SI  (Silver)" -> [ticks_per_point |-> 200, tick_value |-> Rat(2500, 100)]
          [] m = "HG  (Copper)" -> [ticks_per_point |-> 2000, tick_value |-> Rat(1250, 100)]
          [] m = "ZT (2Y Note)" -> [ticks_per_point |-> 128, tick_value |-> Rat(78125, 10000)]
          [] m = "ZF (5Y Note)" -> [ticks_per_point |-> 128, tick_value |-> Rat(78125, 10000)]
          [] m = "ZN (10Y Note)" -> [ticks_per_point |-> 64, tick_value |-> Rat(15625, 1000)]
          [] m = "ZB (30Y Bond)" -> [ticks_per_point |-> 32, tick_value |-> Rat(3125, 100)]
          [] m = "M6E (Micro EUR/USD)" -> [ticks_per_point |-> 20000, tick_value |-> Rat(125, 100)]
          [] m = "6E  (Euro FX)" -> [ticks_per_point |-> 20000, tick_value |-> Rat(625, 100)]]

Rung(t, c) == [threshold |-> t, contracts |-> c]

\* a registry whose 50K ladder steps down at the second rung (6 typed as 3)
TOPSTEPX_ACCOUNTS_dip ==
    [p \in {"50K Express", "100K Express", "150K Express"} |->
        CASE p = "50K Express" ->
               [starting_balance |-> 50000, daily_loss_limit |-> 2500,
                trailing_drawdown |-> 2500,
                scaling_plan |-> <<Rung(0, 4), Rung(1000, 3), Rung(2000, 8), Rung(3000, 10)>>]
          [] p = "100K Express" ->
               [starting_balance |-> 100000, daily_loss_limit |-> 3000,
                trailing_drawdown |-> 3000,
                scaling_plan |-> <<Rung(0, 8), Rung(2000, 12), Rung(4000, 14), Rung(6000, 16)>>]
          [] p = "150K Express" ->
               [starting_balance |-> 150000, daily_loss_limit |-> 3500,
                trailing_drawdown |-> 4500,
                scaling_plan |-> <<Rung(0, 10), Rung(3000, 14), Rung(6000, 18), Rung(9000, 22)>>]]

\* the registry with the 50K Express thresholds out of order
TOPSTEPX_ACCOUNTS_unsorted ==
    [TOPSTEPX_ACCOUNTS_dip EXCEPT
        !["50K Express"].scaling_plan =
            <<Rung(0, 4), Rung(2000, 8), Rung(1000, 6), Rung(3000, 10)>>]

\* scaling_plan rungs are listed by ascending profit threshold
TOPSTEPX_ACCOUNTS ==
    [p \in {"50K Express", "100K Express", "150K Express"} |->
        CASE p = "50K Express" ->
               [starting_balance |-> 50000, daily_loss_limit |-> 2500,
                trailing_drawdown |-> 2500,
                scaling_plan |-> <<Rung(0, 4), Rung(1000, 6), Rung(2000, 8), Rung(3000, 10)>>]
          [] p = "100K Express" ->
               [starting_balance |-> 100000, daily_loss_limit |-> 3000,
                trailing_drawdown |-> 3000,
                scaling_plan |-> <<Rung(0, 8), Rung(2000, 12), Rung(4000, 14), Rung(6000, 16)>>]
          [] p = "150K Express" ->
               [starting_balance |-> 150000, daily_loss_limit |-> 3500,
                trailing_drawdown |-> 4500,
                scaling_plan |-> <<Rung(0, 10), Rung(3000, 14), Rung(6000, 18), Rung(9000, 22)>>]]

---------------------------------------------------------------------------
(* Pure functions of the TopstepX tool                                     *)

\* the frequencies without the floor of 1
trail_freqs_unclamped(zw) ==
    <<Round(Rat(zw, 4)), Round(Rat(3 * zw, 16)), Round(Rat(zw, 8))>>

\* trail_freqs(zw): 0.25, 0.1875 and 0.125 are 1/4, 3/16 and 1/8 exactly
trail_freqs(zw) ==
    <<Max2(1, Round(Rat(zw, 4))),
      Max2(1, Round(Rat(3 * zw, 16))),
      Max2(1, Round(Rat(zw, 8)))>>

\* get_trail_settings with the Tight triggers one multiple too low
get_trail_settings_low(zw, trail_type) ==
    IF trail_type = "Tight (Original)"
    THEN <<<<1 * zw, 2 * zw, 3 * zw>>, <<1 * zw, 2 * zw, 3 * zw>>, trail_freqs(zw)>>
    ELSE <<<<1 * zw, 2 * zw, 3 * zw>>, <<3 * zw, 5 * zw, 7 * zw>>, trail_freqs(zw)>>

\* get_trail_settings(zw, trail_type) = <<stops, triggers, frequencies>>
get_trail_settings(zw, trail_type) ==
    IF trail_type = "Tight (Original)"
    THEN <<<<1 * zw, 2 * zw, 3 * zw>>, <<2 * zw, 3 * zw, 4 * zw>>, trail_freqs(zw)>>
    ELSE <<<<1 * zw, 2 * zw, 3 * zw>>, <<3 * zw, 5 * zw, 7 * zw>>, trail_freqs(zw)>>

RECURSIVE ScalingLoop(_, _, _, _)
\* the for loop of contracts_allowed_by_scaling from rung i on
ScalingLoop(plan, realized_profit, i, eligible) ==
    IF i > Len(plan) THEN eligible
    ELSE IF RGe(realized_profit, R(plan[i].threshold))
         THEN ScalingLoop(plan, realized_profit, i + 1, plan[i].contracts)
         ELSE eligible      \* break

RECURSIVE ScalingLoopStrict(_, _, _, _)
ScalingLoopStrict(plan, realized_profit, i, eligible) ==
    IF i > Len(plan) THEN eligible
    ELSE IF RGt(realized_profit, R(plan[i].threshold))
         THEN ScalingLoopStrict(plan, realized_profit, i + 1, plan[i].contracts)
         ELSE eligible

\* contracts_allowed_by_scaling comparing with > instead of >=
contracts_allowed_by_scaling_strict(plan, realized_profit) ==
    ScalingLoopStrict(plan, realized_profit, 1,
                      IF Len(plan) > 0 THEN plan[1].contracts ELSE 0)

contracts_allowed_by_scaling(plan, realized_profit) ==
    ScalingLoop(plan, realized_profit, 1,
                IF Len(plan) > 0 THEN plan[1].contracts ELSE 0)

---------------------------------------------------------------------------
(* Pure functions of the v15 tool (its own copies)                         *)

v15_trail_freqs(zw) ==
    <<Max2(1, Round(Rat(zw, 4))),
      Max2(1, Round(Rat(3 * zw, 16))),
      Max2(1, Round(Rat(zw, 8)))>>

v15_get_trail_settings(zw, trail_type) ==
    IF trail_type = "Tight (Original)"
    THEN <<<<1 * zw, 2 * zw, 3 * zw>>, <<2 * zw, 3 * zw, 4 * zw>>, v15_trail_freqs(zw)>>
    ELSE <<<<1 * zw, 2 * zw, 3 * zw>>, <<3 * zw, 5 * zw, 7 * zw>>, v15_trail_freqs(zw)>>

---------------------------------------------------------------------------
(* calc() of the TopstepX tool, step by step                               *)

\* an int result, or the ZeroDivisionError a division raised
Ok(n) == [raised |-> FALSE, val |-> n]
ZeroDivisionError == [raised |-> TRUE, val |-> 0]

\* int(a // b) on floats
IntFloorDiv(a, b) == IF b[1] = 0 THEN ZeroDivisionError ELSE Ok(Trunc(FloorDiv(a, b)))

\* the try block: the lookups and conversions return and the three checks pass
tsx_inputs_ok(f) ==
    /\ f.mkt_var \in DOMAIN tsx_reg.MARKETS
    /\ IntOk(f.zw_var)
    /\ f.acct_plan_var \in DOMAIN tsx_reg.TOPSTEPX_ACCOUNTS
    /\ FloatOk(f.acct_var)
    /\ FloatOk(f.risk_var)
    /\ FloatOk(f.split_var)
    /\ (Stripped(f.atr_var) => FloatOk(f.atr_var))
    /\ (Stripped(f.atr_mult_var) => FloatOk(f.atr_mult_var))
    /\ (Stripped(f.custom_t2_var) => IntOk(f.custom_t2_var))
    /\ (Stripped(f.realized_profit_var) => FloatOk(f.realized_profit_var))
    /\ ~(\/ PyInt(f.zw_var) <= 0
         \/ RLe(PyFloat(f.acct_var), R(0))
         \/ RLe(RDiv(PyFloat(f.risk_var), R(100)), R(0)))

\* the optional fields' values, with their defaults when the field is blank
atr_val_of(t) == IF Stripped(t) THEN PyFloat(t) ELSE R(0)
\* the ATR multiplier with a blank field read as 0 instead of 2%
atr_mult_blank_zero(t) == IF Stripped(t) THEN RDiv(PyFloat(t), R(100)) ELSE R(0)

atr_mult_of(t) == IF Stripped(t) THEN RDiv(PyFloat(t), R(100)) ELSE Rat(2, 100)
custom_t2_of(t) == IF Stripped(t) THEN PyInt(t) ELSE 0
realized_profit_of(t) == IF Stripped(t) THEN PyFloat(t) ELSE R(0)

\* the ATR buffer in price units
atr_buffer_of(atr_val, atr_mult) ==
    IF RGt(atr_val, R(0)) THEN RMul(atr_val, atr_mult) ELSE R(0)

\* the ATR buffer in ticks rounded up to whole ticks instead of to the nearest
atr_buffer_ticks_ceil(atr_val, atr_mult, tpp) ==
    IF RGt(atr_val, R(0))
    THEN -Floor(RDiv(RMul(R(-1), RMul(atr_val, atr_mult)), RDiv(R(1), R(tpp))))
    ELSE 0

\* the ATR buffer in ticks: int(round(atr_buffer / (1.0 / tpp)))
atr_buffer_ticks_of(atr_val, atr_mult, tpp) ==
    IF RGt(atr_val, R(0))
    THEN Round(RDiv(RMul(atr_val, atr_mult), RDiv(R(1), R(tpp))))
    ELSE 0

\* the risk of one contract, sized on the base stop without the ATR buffer
per_ct_risk_unbuffered(zw, atr_ticks, tick) == RMul(R(zw), tick)

\* final_sl_ticks * tick, with final_sl_ticks = sl_ticks + atr_buffer_ticks
per_ct_risk_of(zw, atr_ticks, tick) == RMul(R(zw + atr_ticks), tick)

\* the risk-based count guarded by "if per_ct_risk" instead of "> 0"
max_cts_by_risk_truthy(max_risk, per_ct_risk) ==
    IF per_ct_risk[1] # 0 THEN IntFloorDiv(max_risk, per_ct_risk) ELSE Ok(0)

max_cts_by_risk_of(max_risk, per_ct_risk) ==
    IF RGt(per_ct_risk, R(0)) THEN IntFloorDiv(max_risk, per_ct_risk) ELSE Ok(0)

\* the split taking the runner as the truncated share of the complement
qty_split_runner_trunc(max_cts, split) ==
    <<Trunc(RMul(R(max_cts), split)), Trunc(RMul(R(max_cts), Rat(split[2] - split[1], split[2])))>>

\* <<qty1, qty2>>: the safety leg and the runner leg
qty_split(max_cts, split) ==
    LET qty1 == Trunc(RMul(R(max_cts), split))
    IN  <<qty1, max_cts - qty1>>

\* the cap rounded up to the next whole contract
guardrail_cap_ceil(limit, per_ct_risk) ==
    IF per_ct_risk[1] # 0
    THEN Ok(-Floor(RDiv(R(-limit), per_ct_risk)))
    ELSE Ok(0)

\* the cap never below one contract
guardrail_cap_min_one(limit, per_ct_risk) ==
    IF per_ct_risk[1] # 0
    THEN Ok(Max2(1, Trunc(FloorDiv(R(limit), per_ct_risk))))
    ELSE Ok(0)

\* int(limit // per_ct_risk) if per_ct_risk else 0
guardrail_cap(limit, per_ct_risk) ==
    IF per_ct_risk[1] # 0 THEN IntFloorDiv(R(limit), per_ct_risk) ELSE Ok(0)

\* the enforced maximum leaving the scaling plan out of the min
enforced_max_cts_no_scaling(by_risk, daily, trailing, scaling) ==
    MinOf(<<by_risk, daily, trailing>>)

enforced_max_cts_of(by_risk, daily, trailing, scaling) ==
    MinOf(<<by_risk, daily, trailing, scaling>>)

W_PER_CT_DAILY == "Per-contract risk exceeds the daily loss limit."
W_PER_CT_TRAILING == "Per-contract risk exceeds the trailing drawdown cushion."
W_SCALING == "Risk sizing wants more contracts than the scaling plan permits."
W_DAILY == "Risk sizing violates the daily loss cap if all contracts stop out."
W_TRAILING == "Risk sizing would blow the trailing drawdown if fully stopped."

\* the warnings with the scaling-plan test written >= instead of >
warnings_scaling_ge(per_ct_risk, dll, tdd, by_risk, daily, trailing, scaling) ==
    (IF RGt(per_ct_risk, R(dll)) THEN <<W_PER_CT_DAILY>> ELSE <<>>)
    \o (IF RGt(per_ct_risk, R(tdd)) THEN <<W_PER_CT_TRAILING>> ELSE <<>>)
    \o (IF by_risk >= scaling THEN <<W_SCALING>> ELSE <<>>)
    \o (IF by_risk > daily THEN <<W_DAILY>> ELSE <<>>)
    \o (IF by_risk > trailing THEN <<W_TRAILING>> ELSE <<>>)

\* the warnings list, in the order the code appends to it
warnings_of(per_ct_risk, dll, tdd, by_risk, daily, trailing, scaling) ==
    (IF RGt(per_ct_risk, R(dll)) THEN <<W_PER_CT_DAILY>> ELSE <<>>)
    \o (IF RGt(per_ct_risk, R(tdd)) THEN <<W_PER_CT_TRAILING>> ELSE <<>>)
    \o (IF by_risk > scaling THEN <<W_SCALING>> ELSE <<>>)
    \o (IF by_risk > daily THEN <<W_DAILY>> ELSE <<>>)
    \o (IF by_risk > trailing THEN <<W_TRAILING>> ELSE <<>>)

\* the account config looked up from the plan of the last accepted calc()
account_cfg_stale(f) ==
    tsx_reg.TOPSTEPX_ACCOUNTS[IF tsx_accepted # [calc |-> "none"]
                              THEN tsx_accepted.acct_plan_var ELSE f.acct_plan_var]

\* account_cfg = TOPSTEPX_ACCOUNTS[acct_plan_var.get()]
account_cfg_of(f) == tsx_reg.TOPSTEPX_ACCOUNTS[f.acct_plan_var]

\* everything calc() computes after the try block, from the field texts f.
\* `raised` tells that a division raised ZeroDivisionError before the text was built.
tsx_compute(f) ==
    LET spec == tsx_reg.MARKETS[f.mkt_var]
        zw == PyInt(f.zw_var)
        account_cfg == account_cfg_of(f)
        acct == PyFloat(f.acct_var)
        rpct == RDiv(PyFloat(f.risk_var), R(100))
        split == RDiv(PyFloat(f.split_var), R(100))
        atr_val == atr_val_of(f.atr_var)
        atr_mult == atr_mult_of(f.atr_mult_var)
        custom_t2 == custom_t2_of(f.custom_t2_var)
        realized_profit == realized_profit_of(f.realized_profit_var)
        tpp == spec.ticks_per_point
        tick == spec.tick_value
        t1_ticks == 2 * zw
        t2_ticks == IF custom_t2 > 0 THEN custom_t2 ELSE 5 * zw
        atr_buffer_ticks == atr_buffer_ticks_of(atr_val, atr_mult, tpp)
        final_sl_ticks == zw + atr_buffer_ticks
        per_ct_risk == per_ct_risk_of(zw, atr_buffer_ticks, tick)
        max_risk == RMul(acct, rpct)
        by_risk == max_cts_by_risk_of(max_risk, per_ct_risk)
        qty == qty_split(by_risk.val, split)
        trail == get_trail_settings(zw, f.trail_var)
        daily == guardrail_cap(account_cfg.daily_loss_limit, per_ct_risk)
        trailing == guardrail_cap(account_cfg.trailing_drawdown, per_ct_risk)
        scaling == contracts_allowed_by_scaling(account_cfg.scaling_plan, realized_profit)
    IN  [raised |-> by_risk.raised \/ daily.raised \/ trailing.raised,
         plan |-> f.acct_plan_var,
         starting_balance |-> account_cfg.starting_balance,
         market |-> f.mkt_var,
         tick |-> tick,
         tpp |-> tpp,
         acct |-> acct,
         rpct |-> rpct,
         split |-> split,
         max_risk |-> max_risk,
         atr_val |-> atr_val,
         atr_mult |-> atr_mult,
         atr_buffer |-> atr_buffer_of(atr_val, atr_mult),
         atr_buffer_ticks |-> atr_buffer_ticks,
         zw |-> zw,
         final_sl_ticks |-> final_sl_ticks,
         per_ct_risk |-> per_ct_risk,
         max_cts_by_risk |-> by_risk.val,
         qty1 |-> qty[1],
         qty2 |-> qty[2],
         daily_loss_limit |-> account_cfg.daily_loss_limit,
         max_cts_daily |-> daily.val,
         trailing_drawdown |-> account_cfg.trailing_drawdown,
         max_cts_trailing |-> trailing.val,
         realized_profit |-> realized_profit,
         max_cts_scaling |-> scaling,
         enforced_max_cts |-> enforced_max_cts_of(by_risk.val, daily.val, trailing.val, scaling),
         t1_ticks |-> t1_ticks,
         t2_ticks |-> t2_ticks,
         custom_t2 |-> custom_t2,
         be_plus |-> 1,
         trail_type |-> f.trail_var,
         trail_stops |-> trail[1],
         trail_triggers |-> trail[2],
         trail_freq_vals |-> trail[3],
         t1_usd_1 |-> RMul(R(t1_ticks), tick),
         t2_usd_1 |-> RMul(R(t2_ticks), tick),
         warnings |-> warnings_of(per_ct_risk, account_cfg.daily_loss_limit,
                                  account_cfg.trailing_drawdown, by_risk.val,
                                  daily.val, trailing.val, scaling)]

\* the empty Text widget
NoText == [raised |-> FALSE]

\* the calc() whose error path empties `out` before it returns
tsx_calc_clears ==
    /\ IF ~tsx_inputs_ok(tsx)
       THEN /\ tsx_box' = "Input error"
            /\ tsx_out' = NoText
            /\ UNCHANGED tsx_accepted
       ELSE LET r == tsx_compute(tsx)
            IN  IF r.raised
                THEN /\ tsx_box' = "ZeroDivisionError"
                     /\ UNCHANGED <<tsx_out, tsx_accepted>>
                ELSE /\ tsx_box' = "shown"
                     /\ tsx_out' = r
                     /\ tsx_accepted' = tsx
    /\ UNCHANGED <<tsx, tsx_side, v15, v15_out, v15_box, args, ret, mes_vars, app_vars>>

\* calc(): the Calculate button of the TopstepX tool.  The values the text
\* lines are formatted from stand for the text.
tsx_calc ==
    /\ IF ~tsx_inputs_ok(tsx)
       THEN \* messagebox.showerror("Input error", ...); return
            /\ tsx_box' = "Input error"
            /\ UNCHANGED <<tsx_out, tsx_accepted>>
       ELSE LET r == tsx_compute(tsx)
            IN  IF r.raised
                THEN \* the exception leaves the callback before `out` is touched
                     /\ tsx_box' = "ZeroDivisionError"
                     /\ UNCHANGED <<tsx_out, tsx_accepted>>
                ELSE /\ tsx_box' = "shown"
                     /\ tsx_out' = r
                     /\ tsx_accepted' = tsx
    /\ UNCHANGED <<tsx, tsx_side, v15, v15_out, v15_box, args, ret, mes_vars, app_vars>>

---------------------------------------------------------------------------
(* The other callbacks of the TopstepX tool                                *)

\* no calc() has written `out` yet
NotYet == [calc |-> "none"]

\* the module-level dicts as the module body builds them
tsx_globals == [MARKETS |-> MARKETS, TOPSTEPX_ACCOUNTS |-> TOPSTEPX_ACCOUNTS]

\* fmt_dollar(value): "$" and the value with thousands separators and two
\* decimals; the text is given by the amount in cents
fmt_dollar(value) == [cents |-> Round(RMul(value, R(100)))]

\* the two labels as update_account_fields() writes them for a plan config
labels_of(cfg) ==
    [daily_loss_value |-> fmt_dollar(R(cfg.daily_loss_limit)),
     trailing_value |-> fmt_dollar(R(cfg.trailing_drawdown))]

\* copy_out(): the Copy button.  An empty `out` leaves the clipboard alone.
copy_out ==
    /\ IF tsx_out = NoText
       THEN UNCHANGED tsx_clip
       ELSE tsx_clip' = tsx_out
    /\ UNCHANGED <<tsx, tsx_out, tsx_box, tsx_reg, tsx_labels, tsx_accepted,
                   v15, v15_out, v15_box, args, ret, mes_vars, app_vars>>

\* the plans offered by the read-only account combo box in the checked sessions
SessionPlans == {"50K Express", "150K Express"}

\* the callback that also stores the balance on screen into the plan it leaves
update_account_fields_writes ==
    \E p \in SessionPlans :
        LET cfg == tsx_reg.TOPSTEPX_ACCOUNTS[p]
            old == tsx.acct_plan_var
        IN  /\ tsx' = [tsx EXCEPT !.acct_plan_var = p,
                                  !.acct_var = IntText(cfg.starting_balance)]
            /\ tsx_labels' = labels_of(cfg)
            /\ tsx_reg' = IF IntOk(tsx.acct_var)
                          THEN [tsx_reg EXCEPT !.TOPSTEPX_ACCOUNTS[old].starting_balance =
                                                   PyInt(tsx.acct_var)]
                          ELSE tsx_reg
            /\ UNCHANGED <<tsx_out, tsx_box, tsx_clip, tsx_accepted,
                           v15, v15_out, v15_box, args, ret, mes_vars, app_vars>>

\* update_account_fields without acct_var.set(...)
update_account_fields_keeps_balance ==
    \E p \in SessionPlans :
        LET cfg == tsx_reg.TOPSTEPX_ACCOUNTS[p]
        IN  /\ tsx' = [tsx EXCEPT !.acct_plan_var = p]
            /\ tsx_labels' = labels_of(cfg)
            /\ UNCHANGED <<tsx_out, tsx_box, tsx_reg, tsx_clip, tsx_accepted,
                           v15, v15_out, v15_box, args, ret, mes_vars, app_vars>>

\* update_account_fields(event): a plan p is picked in the account combo box
\* (which sets acct_plan_var) and the <<ComboboxSelected>> callback runs
update_account_fields ==
    \E p \in SessionPlans :
        IF p \notin DOMAIN tsx_reg.TOPSTEPX_ACCOUNTS
        THEN \* cfg is None: return
             /\ tsx' = [tsx EXCEPT !.acct_plan_var = p]
             /\ UNCHANGED <<tsx_out, tsx_box, tsx_reg, tsx_labels, tsx_clip, tsx_accepted,
                            v15, v15_out, v15_box, args, ret, mes_vars, app_vars>>
        ELSE LET cfg == tsx_reg.TOPSTEPX_ACCOUNTS[p]
             IN  /\ tsx' = [tsx EXCEPT !.acct_plan_var = p,
                                       !.acct_var = IntText(cfg.starting_balance)]
                 /\ tsx_labels' = labels_of(cfg)
                 /\ UNCHANGED <<tsx_out, tsx_box, tsx_reg, tsx_clip, tsx_accepted,
                                v15, v15_out, v15_box, args, ret, mes_vars, app_vars>>

---------------------------------------------------------------------------
(* calc() of the v15 tool                                                  *)

\* the conversions and checks of the try block (the market lookup apart)
v15_inputs_ok(f) ==
    /\ IntOk(f.zw_var)
    /\ FloatOk(f.acct_var)
    /\ FloatOk(f.risk_var)
    /\ FloatOk(f.split_var)
    /\ (Stripped(f.atr_var) => FloatOk(f.atr_var))
    /\ (Stripped(f.atr_mult_var) => FloatOk(f.atr_mult_var))
    /\ (Stripped(f.custom_t2_var) => IntOk(f.custom_t2_var))
    /\ ~(\/ PyInt(f.zw_var) <= 0
         \/ RLe(PyFloat(f.acct_var), R(0))
         \/ RLe(RDiv(PyFloat(f.risk_var), R(100)), R(0)))

\* what calc() computes after the try block.  per_ct_risk and max_cts are
\* computed from sl_ticks = zw before sl_ticks is reassigned to zw + buffer;
\* t2_ticks is 5 * zw whatever custom_t2 is.
v15_compute(f) ==
    LET spec == V15_MARKETS[f.mkt_var]
        zw == PyInt(f.zw_var)
        acct == PyFloat(f.acct_var)
        rpct == RDiv(PyFloat(f.risk_var), R(100))
        split == RDiv(PyFloat(f.split_var), R(100))
        atr_val == atr_val_of(f.atr_var)
        atr_mult == atr_mult_of(f.atr_mult_var)
        custom_t2 == custom_t2_of(f.custom_t2_var)
        tpp == spec.ticks_per_point
        tick == spec.tick_value
        t1_ticks == 2 * zw
        t2_ticks == 5 * zw
        per_ct_risk == RMul(R(zw), tick)
        max_risk == RMul(acct, rpct)
        max_cts == IF RGt(per_ct_risk, R(0)) THEN IntFloorDiv(max_risk, per_ct_risk) ELSE Ok(0)
        qty1 == Trunc(RMul(R(max_cts.val), split))
        trail == v15_get_trail_settings(zw, f.trail_var)
        atr_buffer_ticks == atr_buffer_ticks_of(atr_val, atr_mult, tpp)
    IN  [raised |-> max_cts.raised,
         market |-> f.mkt_var,
         tick |-> tick,
         tpp |-> tpp,
         acct |-> acct,
         rpct |-> rpct,
         split |-> split,
         max_risk |-> max_risk,
         atr_val |-> atr_val,
         atr_mult |-> atr_mult,
         atr_buffer |-> atr_buffer_of(atr_val, atr_mult),
         atr_buffer_ticks |-> atr_buffer_ticks,
         zw |-> zw,
         sl_ticks |-> zw + atr_buffer_ticks,
         per_ct_risk |-> per_ct_risk,
         max_cts |-> max_cts.val,
         qty1 |-> qty1,
         qty2 |-> max_cts.val - qty1,
         t1_ticks |-> t1_ticks,
         t2_ticks |-> t2_ticks,
         custom_t2 |-> custom_t2,
         be_plus |-> 1,
         trail_type |-> f.trail_var,
         trail_stops |-> trail[1],
         trail_triggers |-> trail[2],
         trail_freqs |-> trail[3],
         t1_usd_1 |-> RMul(R(t1_ticks), tick),
         t2_usd_1 |-> RMul(R(t2_ticks), tick)]

\* calc(): the Calculate button of the v15 tool.  Only ValueError is caught:
\* a market missing from the table raises KeyError out of the callback.
v15_calc ==
    /\ IF v15.mkt_var \notin DOMAIN V15_MARKETS
       THEN /\ v15_box' = "KeyError"
            /\ v15_out' = v15_out
       ELSE IF ~v15_inputs_ok(v15)
       THEN \* messagebox.showerror("Input error", ...); return
            /\ v15_box' = "Input error"
            /\ v15_out' = v15_out
       ELSE LET r == v15_compute(v15)
            IN  IF r.raised
                THEN /\ v15_box' = "ZeroDivisionError"
                     /\ v15_out' = v15_out
                ELSE /\ v15_box' = "shown"
                     /\ v15_out' = r
    /\ UNCHANGED <<v15, tsx, tsx_out, tsx_box, tsx_side, tsx_accepted, args, ret, mes_vars, app_vars>>

---------------------------------------------------------------------------
(* The mes tool (CME futures zone risk calculator)                         *)

\* the ContractSpec dataclass (contract_unit and notes, which no computation
\* reads, are left out)
ContractSpec(symbol, name, exchange, product_group, tick_size, tick_value, is_micro) ==
    [symbol |-> symbol, name |-> name, exchange |-> exchange,
     product_group |-> product_group, tick_size |-> tick_size,
     tick_value |-> tick_value, is_micro |-> is_micro]

\* the list `specs` of _build_specs(), in source order
specs ==
    <<
      ContractSpec("ES", "E-mini S&P 500", "CME", "Equity Index", <<1, 4>>, <<25, 2>>, FALSE),
      ContractSpec("MES", "Micro E-mini S&P 500", "CME", "Equity Index", <<1, 4>>, <<5, 4>>, TRUE),
      ContractSpec("NQ", "E-mini Nasdaq-100", "CME", "Equity Index", <<1, 4>>, <<5, 1>>, FALSE),
      ContractSpec("MNQ", "Micro E-mini Nasdaq-100", "CME", "Equity Index", <<1, 4>>, <<1, 2>>, TRUE),
      ContractSpec("YM", "E-mini Dow ($5)", "CBOT", "Equity Index", <<1, 1>>, <<5, 1>>, FALSE),
      ContractSpec("MYM", "Micro E-mini Dow", "CBOT", "Equity Index", <<1, 1>>, <<1, 2>>, TRUE),
      ContractSpec("RTY", "E-mini Russell 2000", "CME", "Equity Index", <<1, 10>>, <<5, 1>>, FALSE),
      ContractSpec("M2K", "Micro E-mini Russell 2000", "CME", "Equity Index", <<1, 10>>, <<1, 2>>, TRUE),
      ContractSpec("EMD", "E-mini S&P MidCap 400", "CME", "Equity Index", <<1, 10>>, <<10, 1>>, FALSE),
      ContractSpec("NKD", "Nikkei 225 (USD)", "CME", "Equity Index", <<5, 1>>, <<25, 1>>, FALSE),
      ContractSpec("NIY", "Nikkei 225 (JPY)", "CME", "Equity Index", <<5, 1>>, <<25, 2>>, FALSE),
      ContractSpec("BTC", "Bitcoin", "CME", "Cryptocurrency", <<5, 1>>, <<25, 1>>, FALSE),
      ContractSpec("MBT", "Micro Bitcoin", "CME", "Cryptocurrency", <<5, 1>>, <<1, 2>>, TRUE),
      ContractSpec("ETH", "Ether", "CME", "Cryptocurrency", <<1, 4>>, <<25, 2>>, FALSE),
      ContractSpec("MET", "Micro Ether", "CME", "Cryptocurrency", <<1, 4>>, <<1, 40>>, TRUE),
      ContractSpec("CL", "WTI Crude Oil", "NYMEX", "Energy", <<1, 100>>, <<10, 1>>, FALSE),
      ContractSpec("QM", "E-mini Crude Oil", "NYMEX", "Energy", <<1, 40>>, <<25, 2>>, FALSE),
      ContractSpec("MCL", "Micro WTI Crude Oil", "NYMEX", "Energy", <<1, 100>>, <<1, 1>>, TRUE),
      ContractSpec("NG", "Henry Hub Natural Gas", "NYMEX", "Energy", <<1, 1000>>, <<10, 1>>, FALSE),
      ContractSpec("QG", "E-mini Natural Gas", "NYMEX", "Energy", <<1, 200>>, <<25, 2>>, FALSE),
      ContractSpec("MNG", "Micro Henry Hub Natural Gas", "NYMEX", "Energy", <<1, 1000>>, <<1, 1>>, TRUE),
      ContractSpec("RB", "RBOB Gasoline", "NYMEX", "Energy", <<1, 10000>>, <<21, 5>>, FALSE),
      ContractSpec("HO", "NY Harbor ULSD (Heating Oil)", "NYMEX", "Energy", <<1, 10000>>, <<21, 5>>, FALSE),
      ContractSpec("BZ", "Brent Crude Oil", "NYMEX", "Energy", <<1, 100>>, <<10, 1>>, FALSE),
      ContractSpec("GC", "Gold", "COMEX", "Metals", <<1, 10>>, <<10, 1>>, FALSE),
      ContractSpec("MGC", "Micro Gold", "COMEX", "Metals", <<1, 10>>, <<1, 1>>, TRUE),
      ContractSpec("QO", "E-mini Gold", "COMEX", "Metals", <<1, 4>>, <<25, 2>>, FALSE),
      ContractSpec("SI", "Silver", "COMEX", "Metals", <<1, 200>>, <<25, 1>>, FALSE),
      ContractSpec("SIL", "Micro Silver", "COMEX", "Metals", <<1, 200>>, <<5, 1>>, TRUE),
      ContractSpec("HG", "Copper", "COMEX", "Metals", <<1, 2000>>, <<25, 2>>, FALSE),
      ContractSpec("QC", "E-mini Copper", "COMEX", "Metals", <<1, 2000>>, <<25, 4>>, FALSE),
      ContractSpec("PL", "Platinum", "NYMEX", "Metals", <<1, 10>>, <<5, 1>>, FALSE),
      ContractSpec("PA", "Palladium", "NYMEX", "Metals", <<1, 10>>, <<10, 1>>, FALSE),
      ContractSpec("ZC", "Corn", "CBOT", "Agriculture", <<1, 4>>, <<25, 2>>, FALSE),
      ContractSpec("ZS", "Soybeans", "CBOT", "Agriculture", <<1, 4>>, <<25, 2>>, FALSE),
      ContractSpec("ZW", "Chicago Wheat", "CBOT", "Agriculture", <<1, 4>>, <<25, 2>>, FALSE),
      ContractSpec("KE", "KC Hard Red Winter Wheat", "KC Board of Trade", "Agriculture", <<1, 4>>, <<25, 2>>, FALSE),
      ContractSpec("ZO", "Oats", "CBOT", "Agriculture", <<1, 4>>, <<25, 2>>, FALSE),
      ContractSpec("ZR", "Rough Rice", "CBOT", "Agriculture", <<1, 200>>, <<10, 1>>, FALSE),
      ContractSpec("ZM", "Soybean Meal", "CBOT", "Agriculture", <<1, 10>>, <<10, 1>>, FALSE),
      ContractSpec("ZL", "Soybean Oil", "CBOT", "Agriculture", <<1, 10000>>, <<6, 1>>, FALSE),
      ContractSpec("GF", "Feeder Cattle", "CME", "Livestock", <<1, 4000>>, <<25, 2>>, FALSE),
      ContractSpec("LE", "Live Cattle", "CME", "Livestock", <<1, 4000>>, <<10, 1>>, FALSE),
      ContractSpec("HE", "Lean Hogs", "CME", "Livestock", <<1, 4000>>, <<10, 1>>, FALSE),
      ContractSpec("LBS", "Random Length Lumber", "CME", "Lumber", <<1, 10>>, <<11, 1>>, FALSE),
      ContractSpec("DC", "Class III Milk", "CME", "Dairy", <<1, 100>>, <<20, 1>>, FALSE),
      ContractSpec("DA", "Class IV Milk", "CME", "Dairy", <<1, 100>>, <<20, 1>>, FALSE),
      ContractSpec("SR3", "3-Month SOFR", "CME", "Interest Rates", <<1, 400>>, <<25, 4>>, FALSE),
      ContractSpec("GE", "Eurodollar", "CME", "Interest Rates", <<1, 400>>, <<25, 4>>, FALSE),
      ContractSpec("ZB", "U.S. Treasury Bond", "CBOT", "Interest Rates", <<1, 32>>, <<125, 4>>, FALSE),
      ContractSpec("UB", "Ultra U.S. Treasury Bond", "CBOT", "Interest Rates", <<1, 32>>, <<125, 4>>, FALSE),
      ContractSpec("ZN", "10-Year T-Note", "CBOT", "Interest Rates", <<1, 64>>, <<125, 8>>, FALSE),
      ContractSpec("TN", "Ultra 10-Year T-Note", "CBOT", "Interest Rates", <<1, 64>>, <<125, 8>>, FALSE),
      ContractSpec("ZF", "5-Year T-Note", "CBOT", "Interest Rates", <<1, 128>>, <<125, 16>>, FALSE),
      ContractSpec("ZT", "2-Year T-Note", "CBOT", "Interest Rates", <<1, 128>>, <<125, 16>>, FALSE),
      ContractSpec("ZQ", "30-Day Fed Funds", "CME", "Interest Rates", <<1, 400>>, <<521, 50>>, FALSE),
      ContractSpec("6A", "Australian Dollar", "CME", "FX", <<1, 10000>>, <<10, 1>>, FALSE),
      ContractSpec("M6A", "Micro Australian Dollar", "CME", "FX", <<1, 10000>>, <<1, 1>>, TRUE),
      ContractSpec("6B", "British Pound", "CME", "FX", <<1, 10000>>, <<25, 4>>, FALSE),
      ContractSpec("M6B", "Micro British Pound", "CME", "FX", <<1, 10000>>, <<5, 8>>, TRUE),
      ContractSpec("6C", "Canadian Dollar", "CME", "FX", <<1, 10000>>, <<10, 1>>, FALSE),
      ContractSpec("M6C", "Micro Canadian Dollar", "CME", "FX", <<1, 10000>>, <<1, 1>>, TRUE),
      ContractSpec("6E", "Euro FX", "CME", "FX", <<1, 20000>>, <<25, 4>>, FALSE),
      ContractSpec("M6E", "Micro Euro FX", "CME", "FX", <<1, 20000>>, <<5, 8>>, TRUE),
      ContractSpec("6J", "Japanese Yen", "CME", "FX", <<1, 2000000>>, <<25, 4>>, FALSE),
      ContractSpec("M6J", "Micro Japanese Yen", "CME", "FX", <<1, 2000000>>, <<5, 8>>, TRUE),
      ContractSpec("6M", "Mexican Peso", "CME", "FX", <<1, 10000>>, <<5, 1>>, FALSE),
      ContractSpec("M6M", "Micro Mexican Peso", "CME", "FX", <<1, 10000>>, <<1, 2>>, TRUE),
      ContractSpec("6N", "New Zealand Dollar", "CME", "FX", <<1, 10000>>, <<10, 1>>, FALSE),
      ContractSpec("M6N", "Micro New Zealand Dollar", "CME", "FX", <<1, 10000>>, <<1, 1>>, TRUE),
      ContractSpec("6S", "Swiss Franc", "CME", "FX", <<1, 10000>>, <<25, 2>>, FALSE),
      ContractSpec("M6S", "Micro Swiss Franc", "CME", "FX", <<1, 10000>>, <<5, 4>>, TRUE),
      ContractSpec("6R", "Brazilian Real", "CME", "FX", <<1, 10000>>, <<10, 1>>, FALSE),
      ContractSpec("6Z", "South African Rand", "CME", "FX", <<1, 10000>>, <<5, 1>>, FALSE),
      ContractSpec("6L", "Israeli Shekel", "CME", "FX", <<1, 10000>>, <<10, 1>>, FALSE),
      ContractSpec("6U", "Russian Ruble", "CME", "FX", <<1, 10000>>, <<10, 1>>, FALSE)
    >>

\* {spec.symbol: spec for spec in specs}
CONTRACT_SPECS ==
    [sym \in {specs[i].symbol : i \in 1..Len(specs)} |->
        LET last == CHOOSE i \in 1..Len(specs) :
                        /\ specs[i].symbol = sym
                        /\ \A j \in 1..Len(specs) : specs[j].symbol = sym => j <= i
        IN  specs[last]]

DEFAULT_CONTRACT == "MES"

\* ContractSpec.display: f"{symbol} - {name} ({exchange})", given by its parts
display(spec) == <<spec.symbol, spec.name, spec.exchange>>

\* {spec.display: spec.symbol for spec in CONTRACT_SPECS.values()}
DISPLAY_TO_SYMBOL ==
    [dv \in {display(CONTRACT_SPECS[sym]) : sym \in DOMAIN CONTRACT_SPECS} |-> dv[1]]

\* validate_positive_float(value, field_name) returns (does not raise ValueError)
validate_positive_float(t) == FloatOk(t) /\ RGt(PyFloat(t), R(0))

\* what calculate() computes inside its try block for a found spec
mes_compute(spec, f) ==
    LET account_risk == PyFloat(f.risk_entry)
        zone_width == PyFloat(f.zone_entry)
        ticks == RDiv(zone_width, spec.tick_size)
        per_contract_risk == RMul(ticks, spec.tick_value)
        contracts == IF per_contract_risk[1] # 0
                     THEN Trunc(FloorDiv(account_risk, per_contract_risk))
                     ELSE 0
        used_risk == RMul(R(contracts), per_contract_risk)
    IN  [raised |-> FALSE,
         symbol |-> spec.symbol,
         name |-> spec.name,
         zone_width |-> zone_width,
         ticks |-> ticks,
         per_contract_risk |-> per_contract_risk,
         contracts |-> contracts,
         used_risk |-> used_risk,
         unused_risk |-> Rat(account_risk[1] * used_risk[2] - used_risk[1] * account_risk[2],
                             account_risk[2] * used_risk[2])]

\* calculate() without the "if contracts <= 0: raise" check
mes_calculate_shows_zero ==
    /\ IF mes.contract_var \notin DOMAIN DISPLAY_TO_SYMBOL
       THEN /\ mes_box' = "Contract"
            /\ mes_out' = mes_out
       ELSE IF ~(validate_positive_float(mes.risk_entry) /\ validate_positive_float(mes.zone_entry))
       THEN /\ mes_box' = "Input error"
            /\ mes_out' = mes_out
       ELSE /\ mes_box' = "shown"
            /\ mes_out' = mes_compute(CONTRACT_SPECS[DISPLAY_TO_SYMBOL[mes.contract_var]], mes)
    /\ UNCHANGED <<mes, tsx, tsx_out, tsx_box, tsx_side, tsx_accepted,
                   v15, v15_out, v15_box, args, ret, app_vars>>

\* PositionSizeApp.calculate(): the Calculate button of the mes tool
mes_calculate ==
    /\ IF mes.contract_var \notin DOMAIN DISPLAY_TO_SYMBOL
       THEN \* _get_selected_spec() is None: showerror("Contract", ...); return
            /\ mes_box' = "Contract"
            /\ mes_out' = mes_out
       ELSE IF ~(validate_positive_float(mes.risk_entry) /\ validate_positive_float(mes.zone_entry))
       THEN /\ mes_box' = "Input error"
            /\ mes_out' = mes_out
       ELSE LET r == mes_compute(CONTRACT_SPECS[DISPLAY_TO_SYMBOL[mes.contract_var]], mes)
            IN  IF r.contracts <= 0
                THEN \* ValueError("Account risk is too small ...")
                     /\ mes_box' = "Input error"
                     /\ mes_out' = mes_out
                ELSE /\ mes_box' = "shown"
                     /\ mes_out' = r
    /\ UNCHANGED <<mes, tsx, tsx_out, tsx_box, tsx_side, tsx_accepted,
                   v15, v15_out, v15_box, args, ret, app_vars>>

\* the window as PositionSizeApp.__init__ builds it
mes_defaults ==
    [contract_var |-> display(CONTRACT_SPECS[DEFAULT_CONTRACT]),
     risk_entry |-> IntText(500), zone_entry |-> DecText(100, 100)]

---------------------------------------------------------------------------
(* The Self-Dispatch portal (app.py)                                       *)
(*                                                                         *)
(* A file path is the pair <<directory, file name>>, so Path(path).name is *)
(* path[2].  Rows of the list widget are numbered from 1 here (from 0 in   *)
(* Qt).  app_box is the sequence of the titles of the message boxes and    *)
(* dialogs the last handler opened.  Text of line edits is modelled by the *)
(* strings below; only emptiness after strip() matters to the code.        *)

None == "<None>"
NoClient == [cls |-> "None"]

\* AppState.__init__
AppState == [vendor |-> None, username |-> None, client |-> NoClient, claims |-> <<>>]

\* AppState.is_authenticated: bool(self.client and self.username)
is_authenticated(st) ==
    st.client # NoClient /\ st.username # None /\ st.username # ""

\* str.lower() on the vendor names that occur
lower == "Dell" :> "dell" @@ "Lenovo" :> "lenovo" @@ "Acer" :> "acer"

\* str.strip() on the texts typed into the line edits
strip == "" :> "" @@ " " :> "" @@ "alice" :> "alice" @@ " pw " :> "pw"
         @@ "TAG1" :> "TAG1" @@ "open" :> "open" @@ "zzz" :> "zzz"

\* make_client(vendor): the client object, or ValueError
make_client(vendor) ==
    IF lower[vendor] = "dell"
    THEN [raised |-> "", client |-> [cls |-> "DellTechDirectClient", token |-> None]]
    ELSE IF lower[vendor] = "lenovo"
    THEN [raised |-> "", client |-> [cls |-> "LenovoClient", token |-> None]]
    ELSE [raised |-> "ValueError", client |-> NoClient]

\* client.login(username, password): both mocks store a token and return
login(client, username) ==
    [client EXCEPT !.token =
        IF client.cls = "DellTechDirectClient"
        THEN <<"mock-token-for-", username>>
        ELSE <<"mock-lenovo-token-", username>>]

\* the claims of the Dell sample payload, when the file is there, and the
\* mock claim of LenovoClient.list_claims
DellSample == <<[code |-> "SR1", status |-> "Open"], [code |-> "SR2", status |-> "Closed"]>>
LenovoMock == <<[code |-> "LNV-001", status |-> "Open"]>>

\* filter_text in json.dumps(claim).lower(), for the filter texts that occur
InBlob(text, claim) == text = "open" /\ claim.status = "Open"

FilterClaims(text, data) == SelectSeq(data, LAMBDA c : InBlob(text, c))

\* client.list_claims(filter_text).  sample is what the Dell client finds
\* at SAMPLES_DIR / "Inquiry Response Payload.json": "absent", "present" or
\* "corrupt" (json.loads raises)
list_claims(client, filter_text, sample) ==
    IF client.cls = "DellTechDirectClient"
    THEN IF sample = "corrupt" THEN [raised |-> "JSONDecodeError", claims |-> <<>>]
         ELSE LET data == IF sample = "present" THEN DellSample ELSE <<>>
              IN  [raised |-> "",
                   claims |-> IF strip[filter_text] = "" THEN data
                              ELSE FilterClaims(strip[filter_text], data)]
    ELSE [raised |-> "",
          claims |-> IF filter_text = "" THEN LenovoMock
                     ELSE FilterClaims(strip[filter_text], LenovoMock)]

\* DellTechDirectClient.create_claim(payload, attachments); disk is the set
\* of paths that exist when it runs
dell_create_claim(atts, disk) ==
    IF Len(atts) = 0 THEN [raised |-> "ValueError"]
    ELSE IF Len(atts) > 8 THEN [raised |-> "ValueError"]
    ELSE IF \E i \in 1..Len(atts) : atts[i].path \notin disk
    THEN [raised |-> "FileNotFoundError"]
    ELSE [raised |-> "", mock_response |-> "SR123456789", files |-> Len(atts)]

\* LenovoClient.create_claim(payload, attachments): no count check;
\* path.read_bytes() raises FileNotFoundError for a missing file
lenovo_create_claim(atts, disk) ==
    IF \E i \in 1..Len(atts) : atts[i].path \notin disk
    THEN [raised |-> "FileNotFoundError"]
    ELSE [raised |-> "", mock_response |-> "LNV-CLAIM-123", files |-> Len(atts)]

create_claim(client, atts, disk) ==
    IF client.cls = "DellTechDirectClient" THEN dell_create_claim(atts, disk)
    ELSE IF client.cls = "LenovoClient" THEN lenovo_create_claim(atts, disk)
    ELSE [raised |-> "AttributeError"]

\* MainWindow.refresh_claims(filter_text): the new state and the boxes opened
refresh_claims(st, filter_text, sample) ==
    IF st.client = NoClient THEN [state |-> st, boxes |-> <<>>]
    ELSE LET r == list_claims(st.client, filter_text, sample)
         IN  IF r.raised # "" THEN [state |-> st, boxes |-> <<"Refresh failed">>]
             ELSE [state |-> [st EXCEPT !.claims = r.claims], boxes |-> <<>>]

\* MainWindow.handle_login(vendor, username, password) that shows the
\* dashboard although make_client failed
handle_login_enters(vendor, username, sample) ==
    LET c == make_client(vendor)
    IN  IF c.raised # ""
        THEN /\ state' = state
             /\ stack' = "dashboard_page"
             /\ app_box' = <<"Login failed">>
        ELSE LET st == [state EXCEPT !.vendor = vendor, !.username = username,
                                     !.client = login(c.client, username)]
                 r == refresh_claims(st, "", sample)
             IN  /\ state' = r.state
                 /\ app_box' = r.boxes
                 /\ stack' = "dashboard_page"

\* MainWindow.handle_login(vendor, username, password)
handle_login(vendor, username, sample) ==
    LET c == make_client(vendor)
    IN  IF c.raised # ""
        THEN \* except Exception: QMessageBox.critical("Login failed")
             /\ app_box' = <<"Login failed">>
             /\ UNCHANGED <<state, stack>>
        ELSE LET st == [state EXCEPT !.vendor = vendor, !.username = username,
                                     !.client = login(c.client, username)]
                 r == refresh_claims(st, "", sample)
             IN  /\ state' = r.state
                 /\ app_box' = r.boxes
                 /\ stack' = "dashboard_page"

VendorItems == {"Dell", "Lenovo"}
LoginTexts == {"", " ", "alice", " pw "}
Samples == {"absent", "present", "corrupt"}

\* LoginPage._emit_login: the Login button; login_requested is connected to
\* MainWindow.handle_login
emit_login ==
    /\ stack = "login_page"
    /\ \E vendor \in VendorItems, u \in LoginTexts, p \in LoginTexts, sample \in Samples :
          IF vendor = "" \/ strip[u] = "" \/ strip[p] = ""
          THEN /\ app_box' = <<"Missing info">>
               /\ UNCHANGED <<state, stack>>
          ELSE handle_login(vendor, strip[u], sample)
    /\ UNCHANGED <<attachments, list_widget, calc_vars>>

\* login_requested delivered with a vendor name that make_client does not
\* know (the shipped combo box offers none)
login_requested_unsupported ==
    /\ \E sample \in Samples : handle_login("Acer", "alice", sample)
    /\ UNCHANGED <<attachments, list_widget, calc_vars>>

FilterTexts == {"", "open", "zzz"}

\* DashboardPage._emit_refresh: the Refresh button -> refresh_claims(text)
emit_refresh ==
    /\ stack = "dashboard_page"
    /\ \E text \in FilterTexts, sample \in Samples :
          LET r == refresh_claims(state, text, sample)
          IN  /\ state' = r.state
              /\ app_box' = r.boxes
    /\ UNCHANGED <<stack, attachments, list_widget, calc_vars>>

\* MainWindow.open_claim_form: the "Make claim" button of the dashboard
open_claim_form ==
    /\ stack = "dashboard_page"
    /\ stack' = "claim_page"
    /\ app_box' = <<>>
    /\ UNCHANGED <<state, attachments, list_widget, calc_vars>>

\* MainWindow.open_warranty: the modal WarrantyDialog runs and is closed
open_warranty ==
    /\ stack = "dashboard_page"
    /\ app_box' = <<"Warranty checker">>
    /\ UNCHANGED <<state, stack, attachments, list_widget, calc_vars>>

\* MainWindow.show_dashboard: "Back to dashboard" of the claim form
show_dashboard ==
    /\ stack = "claim_page"
    /\ stack' = "dashboard_page"
    /\ app_box' = <<>>
    /\ UNCHANGED <<state, attachments, list_widget, calc_vars>>

\* AttachmentManager.__init__(max_files=8)
max_files == 8

AttachPaths == {<<"/a", "x.png">>, <<"/b", "y.pdf">>}
\* what QInputDialog.getText returns: (text, ok)
DescAnswers == {<<"", TRUE>>, <<"note", FALSE>>}

\* AttachmentManager.add_file: the "Add file" button
add_file ==
    /\ stack = "claim_page"
    /\ IF Len(attachments) >= max_files
       THEN /\ app_box' = <<"Limit">>
            /\ UNCHANGED <<attachments, list_widget>>
       ELSE \/ \* the file dialog is cancelled: path is ""
               /\ app_box' = <<>>
               /\ UNCHANGED <<attachments, list_widget>>
            \/ \E path \in AttachPaths, answer \in DescAnswers :
                  LET desc == IF answer[2] THEN answer[1] ELSE ""
                  IN  /\ attachments' = Append(attachments,
                                               [path |-> path, description |-> desc])
                      /\ list_widget' = Append(list_widget, <<path[2], desc>>)
                      /\ app_box' = <<>>
    /\ UNCHANGED <<state, stack, calc_vars>>

\* list.pop(i) / QListWidget.takeItem(i)
RemoveAt(s, i) == SubSeq(s, 1, i - 1) \o SubSeq(s, i + 1, Len(s))

\* sorted(rows, reverse=True)
RECURSIVE SortedDesc(_)
SortedDesc(S) ==
    IF S = {} THEN <<>>
    ELSE LET m == CHOOSE x \in S : \A y \in S : y <= x
         IN  <<m>> \o SortedDesc(S \ {m})

RECURSIVE RemoveRows(_, _)
\* for row in rows: s.pop(row)
RemoveRows(s, rows) ==
    IF rows = <<>> THEN s ELSE RemoveRows(RemoveAt(s, Head(rows)), Tail(rows))

\* AttachmentManager.remove_selected without self.attachments.pop(row)
remove_selected_keeps_data ==
    /\ stack = "claim_page"
    /\ \E S \in SUBSET (1..Len(list_widget)) :
          /\ Cardinality(S) <= MaxSelected
          /\ list_widget' = RemoveRows(list_widget, SortedDesc(S))
          /\ attachments' = attachments
    /\ app_box' = <<>>
    /\ UNCHANGED <<state, stack, calc_vars>>

\* AttachmentManager.remove_selected; S is the set of selected rows
remove_selected ==
    /\ stack = "claim_page"
    /\ \E S \in SUBSET (1..Len(list_widget)) :
          /\ Cardinality(S) <= MaxSelected
          /\ LET rows == SortedDesc(S)
             IN  /\ list_widget' = RemoveRows(list_widget, rows)
                 /\ attachments' = RemoveRows(attachments, rows)
    /\ app_box' = <<>>
    /\ UNCHANGED <<state, stack, calc_vars>>

TagTexts == {"", " ", "TAG1"}

\* MainWindow.submit_claim(payload, attachments) that leaves the claim form
\* when create_claim fails
submit_claim_leaves(disk, sample) ==
    LET response == create_claim(state.client, attachments, disk)
        r == refresh_claims(state, "", sample)
    IN  /\ state' = IF response.raised # "" THEN state ELSE r.state
        /\ app_box' = IF response.raised # "" THEN <<"Submit failed">>
                      ELSE <<"Claim submitted">> \o r.boxes
        /\ stack' = "dashboard_page"

\* MainWindow.submit_claim(payload, attachments)
submit_claim(disk, sample) ==
    LET response == create_claim(state.client, attachments, disk)
    IN  IF response.raised # ""
        THEN \* except Exception: QMessageBox.critical("Submit failed")
             /\ app_box' = <<"Submit failed">>
             /\ UNCHANGED <<state, stack>>
        ELSE LET r == refresh_claims(state, "", sample)
             IN  /\ state' = r.state
                 /\ app_box' = <<"Claim submitted">> \o r.boxes
                 /\ stack' = "dashboard_page"

\* ClaimFormPage._emit_submit: the Submit button; submit_requested is
\* connected to MainWindow.submit_claim.  disk: the paths that exist now.
emit_submit ==
    /\ stack = "claim_page"
    /\ \E tag \in TagTexts, disk \in SUBSET AttachPaths, sample \in Samples :
          IF strip[tag] = ""
          THEN /\ app_box' = <<"Missing data">>
               /\ UNCHANGED <<state, stack>>
          ELSE submit_claim(disk, sample)
    /\ UNCHANGED <<attachments, list_widget, calc_vars>>

\* MainWindow.__init__ has run: fresh AppState, empty claim form, login page
app_start ==
    /\ state = AppState
    /\ stack = "login_page"
    /\ attachments = <<>>
    /\ list_widget = <<>>
    /\ app_box = <<>>

---------------------------------------------------------------------------
(* The calculators applied to typed-in field values                        *)

TrailTypes == {"Tight (Original)", "Loose (More Space)"}

\* the field values tried in both calculators
TypedMarkets == {"MES (Micro ES)", "MYM (Micro YM)"}
TypedZW == {IntText(0), IntText(18), IntText(2500)} \cup {IntText(z) : z \in 1..MaxZW}
TypedAcct == {Junk, IntText(1000), IntText(50000)}
TypedRisk == {DecText(10, 10), IntText(100)}
TypedSplit == {IntText(-50), IntText(0), IntText(33), IntText(100), IntText(150)}
TypedAtr == {Blank, DecText(20, 10), IntText(50)}
TypedAtrMult == {Blank, IntText(-2)}
TypedCustomT2 == {Blank, IntText(10)}
\* and in the TopstepX calculator only
TypedPlans == {"50K Express", "150K Express"}
TypedProfit == {Blank, IntText(-500), IntText(1500)}

\* the v15 tool's fields holding the same typed values as the TopstepX tool's
SameTyped(f) ==
    [mkt_var |-> f.mkt_var, zw_var |-> f.zw_var, acct_var |-> f.acct_var,
     risk_var |-> f.risk_var, split_var |-> f.split_var, atr_var |-> f.atr_var,
     atr_mult_var |-> f.atr_mult_var, custom_t2_var |-> f.custom_t2_var,
     trail_var |-> f.trail_var]

NoCall == [fn |-> "none", plan |-> "50K Express", p1 |-> R(0), p2 |-> R(0),
           zw |-> 1, trail_type |-> "Tight (Original)"]

\* both windows built, the fields filled in, Calculate not yet pressed
InitCalc ==
    /\ app_start
    /\ tsx \in [mkt_var : TypedMarkets, acct_plan_var : TypedPlans, zw_var : TypedZW,
                acct_var : TypedAcct, risk_var : TypedRisk, split_var : TypedSplit,
                atr_var : TypedAtr, atr_mult_var : TypedAtrMult,
                custom_t2_var : TypedCustomT2, realized_profit_var : TypedProfit,
                trail_var : TrailTypes]
    /\ tsx_out = NoText
    /\ tsx_box = ""
    /\ tsx_reg = tsx_globals
    /\ tsx_labels = labels_of(TOPSTEPX_ACCOUNTS[tsx.acct_plan_var])
    /\ tsx_clip = NoText
    /\ tsx_accepted = NotYet
    /\ v15 = SameTyped(tsx)
    /\ v15_out = NoText
    /\ v15_box = ""
    /\ mes = mes_defaults
    /\ mes_out = NoText
    /\ mes_box = ""
    /\ args = NoCall
    /\ ret = <<>>

NextCalc == tsx_calc \/ v15_calc

SpecCalc == InitCalc /\ [][NextCalc]_vars

---------------------------------------------------------------------------
(* The pure functions applied to arguments                                 *)

\* realized profits: every multiple of 500 in range, and one cent below it
Profits == {Rat(k * 50000 - e, 100) : k \in (-2)..MaxProfitSteps, e \in {0, 1}}

\* the fields as the windows are built (the StringVar defaults)
tsx_defaults ==
    [mkt_var |-> "MES (Micro ES)", acct_plan_var |-> "50K Express",
     zw_var |-> IntText(18), acct_var |-> IntText(50000), risk_var |-> DecText(10, 10),
     split_var |-> IntText(50), atr_var |-> Blank, atr_mult_var |-> IntText(2),
     custom_t2_var |-> Blank, realized_profit_var |-> IntText(0),
     trail_var |-> "Tight (Original)"]

v15_defaults ==
    [mkt_var |-> "MES (Micro ES)", zw_var |-> IntText(18), acct_var |-> IntText(50000),
     risk_var |-> IntText(2), split_var |-> IntText(50), atr_var |-> Blank,
     atr_mult_var |-> IntText(2), custom_t2_var |-> Blank,
     trail_var |-> "Tight (Original)"]

InitFn ==
    /\ app_start
    /\ args \in
         {[NoCall EXCEPT !.fn = "contracts_allowed_by_scaling",
                         !.plan = p, !.p1 = a, !.p2 = b] :
              p \in DOMAIN TOPSTEPX_ACCOUNTS, a \in Profits, b \in Profits}
         \cup
         {[NoCall EXCEPT !.fn = g, !.zw = z, !.trail_type = t] :
              g \in {"get_trail_settings", "v15_get_trail_settings"},
              z \in 1..MaxTrailZW, t \in TrailTypes}
    /\ ret = <<>>
    /\ tsx = tsx_defaults
    /\ tsx_out = NoText
    /\ tsx_box = ""
    /\ tsx_reg = tsx_globals
    /\ tsx_labels = labels_of(TOPSTEPX_ACCOUNTS[tsx.acct_plan_var])
    /\ tsx_clip = NoText
    /\ tsx_accepted = NotYet
    /\ v15 = v15_defaults
    /\ v15_out = NoText
    /\ v15_box = ""
    /\ mes = mes_defaults
    /\ mes_out = NoText
    /\ mes_box = ""

\* contracts_allowed_by_scaling called on a registry plan, once for each of
\* two realized profits
call_contracts_allowed_by_scaling ==
    /\ args.fn = "contracts_allowed_by_scaling"
    /\ LET plan == TOPSTEPX_ACCOUNTS[args.plan].scaling_plan
       IN  ret' = <<contracts_allowed_by_scaling(plan, args.p1),
                    contracts_allowed_by_scaling(plan, args.p2)>>
    /\ UNCHANGED <<args, tsx, tsx_out, tsx_box, tsx_side, tsx_accepted,
                    v15, v15_out, v15_box, mes_vars, app_vars>>

call_get_trail_settings ==
    /\ args.fn = "get_trail_settings"
    /\ ret' = get_trail_settings(args.zw, args.trail_type)
    /\ UNCHANGED <<args, tsx, tsx_out, tsx_box, tsx_side, tsx_accepted,
                    v15, v15_out, v15_box, mes_vars, app_vars>>

call_v15_get_trail_settings ==
    /\ args.fn = "v15_get_trail_settings"
    /\ ret' = v15_get_trail_settings(args.zw, args.trail_type)
    /\ UNCHANGED <<args, tsx, tsx_out, tsx_box, tsx_side, tsx_accepted,
                    v15, v15_out, v15_box, mes_vars, app_vars>>

NextFn ==
    \/ call_contracts_allowed_by_scaling
    \/ call_get_trail_settings
    \/ call_v15_get_trail_settings

SpecFn == InitFn /\ [][NextFn]_vars

---------------------------------------------------------------------------
(* A session at the TopstepX window                                        *)

\* the texts typed into the entry fields during a session
SessionZW == {Junk, IntText(0), IntText(18)}
SessionAcct == {Junk, IntText(1000)}
SessionRisk == {IntText(0), DecText(10, 10)}
SessionProfit == {IntText(0), IntText(1500)}
\* and the markets picked in the read-only market combo box
SessionMarkets == {"MES (Micro ES)", "MYM (Micro YM)"}

SessionEdits ==
    {<<"mkt_var", m>> : m \in SessionMarkets}
    \cup {<<"zw_var", t>> : t \in SessionZW}
    \cup {<<"acct_var", t>> : t \in SessionAcct}
    \cup {<<"risk_var", t>> : t \in SessionRisk}
    \cup {<<"realized_profit_var", t>> : t \in SessionProfit}

\* the user replaces the text of one entry field or picks a market (no
\* callback is bound to either)
tsx_type ==
    /\ \E e \in SessionEdits : tsx' = [tsx EXCEPT ![e[1]] = e[2]]
    /\ UNCHANGED <<tsx_out, tsx_box, tsx_reg, tsx_labels, tsx_clip, tsx_accepted,
                   v15, v15_out, v15_box, args, ret, mes_vars, app_vars>>

\* the module body has run up to root.mainloop(): the dicts and the widgets
\* are built with their defaults, update_account_fields() and calc() have run
Init ==
    /\ app_start
    /\ tsx_reg = tsx_globals
    /\ tsx = [tsx_defaults EXCEPT
                !.acct_var = IntText(tsx_reg.TOPSTEPX_ACCOUNTS["50K Express"].starting_balance)]
    /\ tsx_labels = labels_of(tsx_reg.TOPSTEPX_ACCOUNTS[tsx.acct_plan_var])
    /\ tsx_accepted = tsx
    /\ tsx_out = tsx_compute(tsx)
    /\ tsx_box = "shown"
    /\ tsx_clip = NoText
    /\ v15 = v15_defaults
    /\ v15_out = v15_compute(v15)
    /\ v15_box = "shown"
    /\ mes = mes_defaults
    /\ mes_out = NoText
    /\ mes_box = ""
    /\ args = NoCall
    /\ ret = <<>>

Next ==
    \/ tsx_type
    \/ update_account_fields
    \/ tsx_calc
    \/ copy_out

Spec == Init /\ [][Next]_vars

---------------------------------------------------------------------------
(* The calculators applied to identifiers in and out of the registries     *)

\* the identifiers held by mkt_var, acct_plan_var and contract_var when the
\* calculation is invoked: registry keys, and one string that is no key
LookupMarkets == {"MES (Micro ES)", "MYM (Micro YM)", "M6E (Micro EUR/USD)", "XYZ (Unlisted)"}
LookupPlans == {"50K Express", "150K Express", "25K Express"}
LookupContracts ==
    {display(CONTRACT_SPECS["MES"]), display(CONTRACT_SPECS["6E"]),
     display(CONTRACT_SPECS["M6E"]), <<"XYZ", "Unlisted", "CME">>}
LookupZW == {IntText(0), IntText(18)}
LookupRisk == {Junk, IntText(1), IntText(500)}
LookupZone == {IntText(0), DecText(1, 1000), DecText(100, 100)}

InitLookup ==
    /\ app_start
    /\ tsx \in {[tsx_defaults EXCEPT !.mkt_var = m, !.acct_plan_var = p, !.zw_var = z] :
                   m \in LookupMarkets, p \in LookupPlans, z \in LookupZW}
    /\ tsx_out = NoText
    /\ tsx_box = ""
    /\ tsx_reg = tsx_globals
    /\ tsx_labels = labels_of(TOPSTEPX_ACCOUNTS["50K Express"])
    /\ tsx_clip = NoText
    /\ tsx_accepted = NotYet
    /\ v15 = [v15_defaults EXCEPT !.mkt_var = tsx.mkt_var, !.zw_var = tsx.zw_var]
    /\ v15_out = NoText
    /\ v15_box = ""
    /\ mes \in [contract_var : LookupContracts, risk_entry : LookupRisk,
                zone_entry : LookupZone]
    /\ mes_out = NoText
    /\ mes_box = ""
    /\ args = NoCall
    /\ ret = <<>>

NextLookup == tsx_calc \/ v15_calc \/ mes_calculate

SpecLookup == InitLookup /\ [][NextLookup]_vars

---------------------------------------------------------------------------
(* A session of the mes tool: contracts picked, fields typed, Calculate    *)

MesContracts ==
    {display(CONTRACT_SPECS["MES"]), display(CONTRACT_SPECS["M6E"]),
     display(CONTRACT_SPECS["ZN"])}
MesRisk == {Blank, Junk, IntText(-5), IntText(0), IntText(1), IntText(500)}
MesZone == {Junk, IntText(0), DecText(1, 1000), DecText(30, 100), DecText(100, 100)}

\* the user types into the account-risk or the zone-width entry
mes_type ==
    /\ \/ \E t \in MesRisk : mes' = [mes EXCEPT !.risk_entry = t]
       \/ \E t \in MesZone : mes' = [mes EXCEPT !.zone_entry = t]
    /\ UNCHANGED <<mes_out, mes_box, tsx, tsx_out, tsx_box, tsx_side, tsx_accepted,
                   v15, v15_out, v15_box, args, ret, app_vars>>

\* a contract is picked in the read-only combo box; _on_contract_change then
\* rewrites the contract detail labels, which are not part of this model
on_contract_change ==
    /\ \E c \in MesContracts : mes' = [mes EXCEPT !.contract_var = c]
    /\ UNCHANGED <<mes_out, mes_box, tsx, tsx_out, tsx_box, tsx_side, tsx_accepted,
                   v15, v15_out, v15_box, args, ret, app_vars>>

\* PositionSizeApp() has been constructed: default contract and entry texts,
\* empty result box
InitMes ==
    /\ app_start
    /\ mes = mes_defaults
    /\ mes_out = NoText
    /\ mes_box = ""
    /\ tsx = tsx_defaults
    /\ tsx_out = NoText
    /\ tsx_box = ""
    /\ tsx_reg = tsx_globals
    /\ tsx_labels = labels_of(TOPSTEPX_ACCOUNTS["50K Express"])
    /\ tsx_clip = NoText
    /\ tsx_accepted = NotYet
    /\ v15 = v15_defaults
    /\ v15_out = NoText
    /\ v15_box = ""
    /\ args = NoCall
    /\ ret = <<>>

NextMes == mes_type \/ on_contract_change \/ mes_calculate

SpecMes == InitMes /\ [][NextMes]_vars

---------------------------------------------------------------------------
(* A session at the Self-Dispatch portal                                   *)

InitApp ==
    /\ app_start
    /\ tsx = tsx_defaults
    /\ tsx_out = NoText
    /\ tsx_box = ""
    /\ tsx_reg = tsx_globals
    /\ tsx_labels = labels_of(TOPSTEPX_ACCOUNTS["50K Express"])
    /\ tsx_clip = NoText
    /\ tsx_accepted = NotYet
    /\ v15 = v15_defaults
    /\ v15_out = NoText
    /\ v15_box = ""
    /\ mes = mes_defaults
    /\ mes_out = NoText
    /\ mes_box = ""
    /\ args = NoCall
    /\ ret = <<>>

NextApp ==
    \/ emit_login
    \/ login_requested_unsupported
    \/ emit_refresh
    \/ open_warranty
    \/ open_claim_form
    \/ show_dashboard
    \/ add_file
    \/ remove_selected
    \/ emit_submit

SpecApp == InitApp /\ [][NextApp]_vars

---------------------------------------------------------------------------
(* Properties                                                              *)

\* a result is displayed in the tool's output area
tsx_has_result == tsx_out # NoText
v15_has_result == v15_out # NoText

\* k = floor(a / b) for rationals a, b with b # 0
IsFloorOfQuotient(k, a, b) ==
    IF RGt(b, R(0))
    THEN RLe(RMul(R(k), b), a) /\ RLt(a, RMul(R(k + 1), b))
    ELSE RGe(RMul(R(k), b), a) /\ RGt(a, RMul(R(k + 1), b))

StrictlyIncreasing(s) == \A i \in 1..(Len(s) - 1) : s[i] < s[i + 1]

Count(s, x) == Cardinality({i \in 1..Len(s) : s[i] = x})

\* C1: every result of the TopstepX calc has enforced_max_contracts equal to
\* the minimum of the risk-based count and the three caps: it is one of the
\* four and exceeds none of them.
C1_EnforcedIsMin ==
    tsx_has_result =>
        LET r == tsx_out
            caps == {r.max_cts_by_risk, r.max_cts_daily, r.max_cts_trailing, r.max_cts_scaling}
        IN  /\ r.enforced_max_cts \in caps
            /\ \A c \in caps : r.enforced_max_cts <= c

\* a result where the scaling plan alone binds, below the risk-based count
C1_Witness ==
    /\ tsx_has_result
    /\ tsx_out.enforced_max_cts = tsx_out.max_cts_scaling
    /\ tsx_out.max_cts_scaling < tsx_out.max_cts_by_risk
    /\ tsx_out.max_cts_scaling < tsx_out.max_cts_daily
    /\ tsx_out.max_cts_scaling < tsx_out.max_cts_trailing

\* C2: in both tools, for a risk-based count >= 0 and a split in [0,1], the
\* safety quantity is floor(count * split), safety + runner = count, and
\* neither is negative.
C2_SplitConservation ==
    /\ tsx_has_result =>
         LET r == tsx_out
         IN  (r.max_cts_by_risk >= 0 /\ RLe(R(0), r.split) /\ RLe(r.split, R(1))) =>
                 /\ IsFloorOfQuotient(r.qty1, RMul(R(r.max_cts_by_risk), r.split), R(1))
                 /\ r.qty1 + r.qty2 = r.max_cts_by_risk
                 /\ r.qty1 >= 0
                 /\ r.qty2 >= 0
    /\ v15_has_result =>
         LET r == v15_out
         IN  (r.max_cts >= 0 /\ RLe(R(0), r.split) /\ RLe(r.split, R(1))) =>
                 /\ IsFloorOfQuotient(r.qty1, RMul(R(r.max_cts), r.split), R(1))
                 /\ r.qty1 + r.qty2 = r.max_cts
                 /\ r.qty1 >= 0
                 /\ r.qty2 >= 0

\* both tools split a count that 33% does not divide evenly
C2_Witness ==
    /\ tsx_has_result /\ v15_has_result
    /\ tsx_out.split = Rat(33, 100) /\ v15_out.split = Rat(33, 100)
    /\ tsx_out.qty1 > 0 /\ tsx_out.qty2 > 0
    /\ (tsx_out.max_cts_by_risk * 33) % 100 # 0
    /\ v15_out.qty1 > 0 /\ v15_out.qty2 > 0
    /\ (v15_out.max_cts * 33) % 100 # 0

\* the contracts of the last rung whose threshold is <= profit; the base
\* rung's when there is none
LastTierAtOrBelow(plan, profit) ==
    LET at == {i \in 1..Len(plan) : RLe(R(plan[i].threshold), profit)}
    IN  IF at = {} THEN plan[1].contracts
        ELSE plan[CHOOSE i \in at : \A j \in at : j <= i].contracts

scaling_returned == args.fn = "contracts_allowed_by_scaling" /\ ret # <<>>

\* C3: for every shipped plan and realized profit, contracts_allowed_by_scaling
\* returns the contracts of the last tier whose threshold <= profit, and the
\* base tier's contracts for a profit below zero.
C3_LastTierAtOrBelow ==
    scaling_returned =>
        LET plan == TOPSTEPX_ACCOUNTS[args.plan].scaling_plan
        IN  /\ ret[1] = LastTierAtOrBelow(plan, args.p1)
            /\ ret[2] = LastTierAtOrBelow(plan, args.p2)
            /\ RLt(args.p1, R(0)) => ret[1] = plan[1].contracts
            /\ RLt(args.p2, R(0)) => ret[2] = plan[1].contracts

\* the function returned the base rung for a negative profit, and the second
\* rung for a profit equal to the second rung's threshold
C3_Witness ==
    /\ scaling_returned
    /\ LET plan == TOPSTEPX_ACCOUNTS[args.plan].scaling_plan
       IN  /\ RLt(args.p1, R(0))
           /\ ret[1] = plan[1].contracts
           /\ args.p2 = R(plan[2].threshold)
           /\ ret[2] = plan[2].contracts
           /\ ret[2] # plan[1].contracts

\* C4: for a fixed plan, the scaling-plan cap does not decrease as the
\* realized profit increases.
C4_ScalingMonotone ==
    (scaling_returned /\ RLe(args.p1, args.p2)) => ret[1] <= ret[2]

\* two calls on one plan where the larger profit earned a larger cap
C4_Witness ==
    /\ scaling_returned
    /\ RLt(args.p1, args.p2)
    /\ ret[1] < ret[2]

\* C5: in every result of either tool, a positive ATR value leaves the final
\* stop at or above the zone width, and a zero ATR value leaves it equal.
C5_AtrAdditivity ==
    /\ tsx_has_result =>
         /\ RGt(tsx_out.atr_val, R(0)) => tsx_out.final_sl_ticks >= tsx_out.zw
         /\ tsx_out.atr_val = R(0) => tsx_out.final_sl_ticks = tsx_out.zw
    /\ v15_has_result =>
         /\ RGt(v15_out.atr_val, R(0)) => v15_out.sl_ticks >= v15_out.zw
         /\ v15_out.atr_val = R(0) => v15_out.sl_ticks = v15_out.zw

trail_returned ==
    args.fn \in {"get_trail_settings", "v15_get_trail_settings"} /\ ret # <<>>

\* C6: for every positive zw and both styles (in both tools) the stops are
\* [zw, 2zw, 3zw], the triggers [2zw, 3zw, 4zw] (Tight) or [3zw, 5zw, 7zw]
\* (Loose); stops and triggers strictly increase and each trigger is above
\* its stop.
C6_TrailOrdering ==
    trail_returned =>
        LET zw == args.zw
            stops == ret[1]
            triggers == ret[2]
        IN  /\ stops = <<zw, 2 * zw, 3 * zw>>
            /\ triggers = IF args.trail_type = "Tight (Original)"
                          THEN <<2 * zw, 3 * zw, 4 * zw>>
                          ELSE <<3 * zw, 5 * zw, 7 * zw>>
            /\ StrictlyIncreasing(stops)
            /\ StrictlyIncreasing(triggers)
            /\ \A i \in 1..3 : triggers[i] > stops[i]

\* the TopstepX function returned a Tight schedule for a zone width above 1
C6_Witness ==
    /\ args.fn = "get_trail_settings" /\ ret # <<>>
    /\ args.trail_type = "Tight (Original)"
    /\ args.zw > 1
    /\ ret[2][1] = 2 * args.zw

\* C7: the TopstepX calc never ends in a ZeroDivisionError; its risk-based
\* count is floor(max_risk / per_ct_risk) when per_ct_risk > 0 and 0 when
\* per_ct_risk <= 0.
C7_RiskCount ==
    /\ tsx_box # "ZeroDivisionError"
    /\ tsx_has_result =>
         LET r == tsx_out
         IN  IF RGt(r.per_ct_risk, R(0))
             THEN IsFloorOfQuotient(r.max_cts_by_risk, r.max_risk, r.per_ct_risk)
             ELSE r.max_cts_by_risk = 0

\* a result is shown for a per-contract risk of exactly 0
C7_Witness ==
    /\ tsx_box = "shown"
    /\ tsx_out.per_ct_risk = R(0)
    /\ tsx_out.max_cts_by_risk = 0
    /\ tsx_out.max_cts_daily = 0

\* C8: with an account plan, the daily-loss and trailing-drawdown caps are
\* floor(limit / per_ct_risk) for the plan's limits, where per_ct_risk is the
\* buffered stop (zone width + ATR buffer) times the tick value, the same
\* figure the risk-based count uses.  (Stated where per_ct_risk # 0.)
C8_GuardrailCaps ==
    tsx_has_result =>
        LET r == tsx_out
            cfg == TOPSTEPX_ACCOUNTS[r.plan]
            buffered == RMul(R(r.zw + r.atr_buffer_ticks), r.tick)
        IN  /\ r.per_ct_risk = buffered
            /\ r.final_sl_ticks = r.zw + r.atr_buffer_ticks
            /\ buffered # R(0) =>
                 /\ IsFloorOfQuotient(r.max_cts_daily, R(cfg.daily_loss_limit), buffered)
                 /\ IsFloorOfQuotient(r.max_cts_trailing, R(cfg.trailing_drawdown), buffered)
            /\ RGt(buffered, R(0)) =>
                 IsFloorOfQuotient(r.max_cts_by_risk, r.max_risk, buffered)

\* a result with a positive ATR buffer and caps that differ between the limits
C8_Witness ==
    /\ tsx_has_result
    /\ tsx_out.atr_buffer_ticks > 0
    /\ tsx_out.max_cts_daily > 0
    /\ tsx_out.max_cts_trailing > tsx_out.max_cts_daily

\* C9: the TopstepX result carries each warning at most once, each exactly
\* when its condition holds; and inputs that pass validation always end in a
\* displayed result, whatever the warnings.
C9_Warnings ==
    /\ tsx_has_result =>
         LET r == tsx_out
             w == r.warnings
             Has(m) == \E i \in 1..Len(w) : w[i] = m
         IN  /\ \A i \in 1..Len(w) :
                   /\ w[i] \in {W_PER_CT_DAILY, W_PER_CT_TRAILING, W_SCALING, W_DAILY, W_TRAILING}
                   /\ Count(w, w[i]) = 1
             /\ Has(W_DAILY) <=> r.max_cts_by_risk > r.max_cts_daily
             /\ Has(W_TRAILING) <=> r.max_cts_by_risk > r.max_cts_trailing
             /\ Has(W_SCALING) <=> r.max_cts_by_risk > r.max_cts_scaling
             /\ Has(W_PER_CT_DAILY) <=> RGt(r.per_ct_risk, R(r.daily_loss_limit))
             /\ Has(W_PER_CT_TRAILING) <=> RGt(r.per_ct_risk, R(r.trailing_drawdown))
    /\ (tsx_box # "" /\ tsx_inputs_ok(tsx)) => (tsx_box = "shown" /\ tsx_has_result)

\* a result displayed together with all five warnings
C9_Witness ==
    /\ tsx_box = "shown"
    /\ Len(tsx_out.warnings) = 5

\* C10: neither tool displays a result whose final stop is zero or negative
\* (such inputs end in the input-error dialog instead).
C10_NonPositiveStopRejected ==
    /\ tsx_has_result => tsx_out.final_sl_ticks > 0
    /\ v15_has_result => v15_out.sl_ticks > 0


\* a required field's text is not a number, or the number is not positive
BadRequired(f) ==
    \/ ~IntOk(f.zw_var) \/ f.zw_var.v[1] <= 0
    \/ ~FloatOk(f.acct_var) \/ f.acct_var.v[1] <= 0
    \/ ~FloatOk(f.risk_var) \/ f.risk_var.v[1] <= 0

\* C11: a calc() called with a non-numeric or non-positive zone width, account
\* balance or risk percent ends in the "Input error" dialog and changes
\* neither the displayed result nor the two registries; so the result on
\* display is always the one computed from the field values of the most
\* recent calc() that was accepted.
C11_RejectedLeavesResult ==
    /\ [](tsx_has_result =>
            /\ tsx_accepted # NotYet
            /\ ~BadRequired(tsx_accepted)
            /\ tsx_out = tsx_compute(tsx_accepted))
    /\ [][(tsx_calc /\ BadRequired(tsx)) =>
            /\ tsx_box' = "Input error"
            /\ tsx_out' = tsx_out
            /\ tsx_reg' = tsx_reg]_vars

\* a calc() was rejected while the result of an earlier accepted calc(), made
\* after a plan change, stays on display
C11_Witness ==
    /\ tsx_box = "Input error"
    /\ BadRequired(tsx)
    /\ tsx_has_result
    /\ tsx_accepted # NotYet
    /\ tsx_accepted.acct_plan_var = "150K Express"
    /\ tsx_out = tsx_compute(tsx_accepted)

\* the optional and bounded numeric inputs of a displayed result are in the
\* domains the engine requires of them
InDomain(r) ==
    /\ RLe(r.rpct, R(1))
    /\ RGe(r.split, R(0)) /\ RLe(r.split, R(1))
    /\ RGe(r.atr_val, R(0))
    /\ RGe(r.atr_mult, R(0))
    /\ r.custom_t2 >= 0

\* C12: a risk fraction above 1, a split outside [0, 1], a negative ATR value,
\* a negative ATR multiplier or a negative custom target 2 is rejected: no
\* result is ever displayed for such an input, in either calculator.
C12_DomainsEnforced ==
    /\ (tsx_has_result => InDomain(tsx_out))
    /\ (v15_has_result => InDomain(v15_out))

TargetsFromZW(r) ==
    /\ r.t1_ticks = 2 * r.zw
    /\ r.t2_ticks = (IF r.custom_t2 > 0 THEN r.custom_t2 ELSE 5 * r.zw)

\* C14: in each calculator that reads a custom target 2, target 1 is 2 x ZW
\* and target 2 is the custom target when it is positive and 5 x ZW
\* otherwise, whatever the ATR buffer is.
C14_Targets ==
    /\ (tsx_has_result => TargetsFromZW(tsx_out))
    /\ (v15_has_result => TargetsFromZW(v15_out))

\* C15: in each calculator the per-contract risk is the final stop in ticks,
\* ATR buffer included (the stop the result reports), times the tick value,
\* a positive number: so it never decreases when the final stop grows.
C15_RiskOnFinalStop ==
    /\ (tsx_has_result =>
            /\ tsx_out.tick[1] > 0
            /\ tsx_out.per_ct_risk = RMul(R(tsx_out.final_sl_ticks), tsx_out.tick))
    /\ (v15_has_result =>
            /\ v15_out.tick[1] > 0
            /\ v15_out.per_ct_risk = RMul(R(v15_out.sl_ticks), v15_out.tick))

\* x is an integer nearest to the rational a (whichever way a tie goes)
IsNearest(x, a) ==
    /\ 2 * Abs(x * a[2] - a[1]) <= a[2]

\* the ATR buffer of a displayed result, given its market's ticks per point
BufferAsSpecified(r, stop) ==
    /\ (RGt(r.atr_val, R(0)) =>
            IsNearest(r.atr_buffer_ticks, RMul(RMul(r.atr_val, r.atr_mult), R(r.tpp))))
    /\ (r.atr_val = R(0) => r.atr_buffer_ticks = 0)
    /\ stop = r.zw + r.atr_buffer_ticks
    /\ ((r.atr_val = Rat(2, 1) /\ r.atr_mult = Rat(2, 100) /\ r.tpp = 4) =>
            /\ r.atr_buffer_ticks = 0
            /\ (r.zw = 18 => stop = 18))

\* C16: for a positive ATR the buffer in ticks is atr x multiplier x ticks per
\* point rounded to the nearest integer and the final stop is ZW plus that
\* buffer; for an ATR of 0 the buffer is 0; an ATR of 2.0 at 2% on a market of
\* 4 ticks per point gives a buffer of 0 ticks and a final stop of 18 for ZW 18.
C16_AtrBuffer ==
    /\ (tsx_has_result => BufferAsSpecified(tsx_out, tsx_out.final_sl_ticks))
    /\ (v15_has_result => BufferAsSpecified(v15_out, v15_out.sl_ticks))

\* both tools display the result for ATR 2.0 at the default 2% on MES, ZW 18
C16_Witness ==
    /\ tsx_has_result /\ v15_has_result
    /\ tsx_out.atr_val = Rat(2, 1) /\ tsx_out.atr_mult = Rat(2, 100)
    /\ tsx_out.tpp = 4 /\ tsx_out.zw = 18
    /\ tsx_out.final_sl_ticks = 18
    /\ v15_out.atr_val = Rat(2, 1) /\ v15_out.zw = 18 /\ v15_out.sl_ticks = 18

\* f is max(1, n) for an integer n nearest to the rational x >= 0
IsClampedNearest(f, x) ==
    /\ f >= 1
    /\ (IsNearest(f, x) \/ (f = 1 /\ RLe(x, Rat(1, 2))))

\* C17: the three frequencies returned for a zone width zw are
\* max(1, round(0.25 zw)), max(1, round(0.1875 zw)), max(1, round(0.125 zw));
\* each is an integer >= 1 and f1 >= f2 >= f3.
C17_TrailFreqs ==
    trail_returned =>
        LET zw == args.zw
            f == ret[3]
        IN  /\ Len(f) = 3
            /\ IsClampedNearest(f[1], Rat(25 * zw, 100))
            /\ IsClampedNearest(f[2], Rat(1875 * zw, 10000))
            /\ IsClampedNearest(f[3], Rat(125 * zw, 1000))
            /\ \A i \in 1..3 : f[i] \in Nat /\ f[i] >= 1
            /\ f[1] >= f[2] /\ f[2] >= f[3]

\* the TopstepX function returned for zone width 2, where every rounded
\* product is 0 and every frequency is raised to 1
C17_Witness ==
    /\ args.fn = "get_trail_settings" /\ ret # <<>>
    /\ args.zw = 2
    /\ ret[3] = <<1, 1, 1>>

\* two displayed results echo the same input values
SameInputs(a, b) ==
    /\ a.market = b.market /\ a.plan = b.plan /\ a.zw = b.zw
    /\ a.acct = b.acct /\ a.rpct = b.rpct /\ a.split = b.split
    /\ a.atr_val = b.atr_val /\ a.atr_mult = b.atr_mult
    /\ a.custom_t2 = b.custom_t2 /\ a.realized_profit = b.realized_profit
    /\ a.trail_type = b.trail_type

WellFormedPlan(cfg) ==
    LET sp == cfg.scaling_plan
    IN  /\ Len(sp) >= 1
        /\ sp[1].threshold = 0
        /\ \A i \in 1..(Len(sp) - 1) :
              /\ sp[i].threshold < sp[i + 1].threshold
              /\ sp[i].contracts <= sp[i + 1].contracts
        /\ cfg.daily_loss_limit > 0
        /\ cfg.trailing_drawdown > 0
        /\ cfg.starting_balance > 0

\* C19: every plan of the account registry has a non-empty scaling plan whose
\* thresholds strictly ascend from 0 and whose contract counts never
\* decrease, and a positive daily loss limit, trailing drawdown and starting
\* balance.
C19_RegistryWellFormed ==
    /\ DOMAIN tsx_reg.TOPSTEPX_ACCOUNTS # {}
    /\ \A plan \in DOMAIN tsx_reg.TOPSTEPX_ACCOUNTS :
          WellFormedPlan(tsx_reg.TOPSTEPX_ACCOUNTS[plan])

\* the registry holds its three plans while a result sized on the 150K plan's
\* first tier is on display
C19_Witness ==
    /\ DOMAIN tsx_reg.TOPSTEPX_ACCOUNTS = {"50K Express", "100K Express", "150K Express"}
    /\ tsx_has_result
    /\ tsx_out.plan = "150K Express"
    /\ tsx_out.max_cts_scaling = tsx_reg.TOPSTEPX_ACCOUNTS["150K Express"].scaling_plan[1].contracts

\* C20: no operation (calc accepted or rejected, copy_out,
\* update_account_fields, an edit of a field), in any order and number,
\* changes the market registry or the account-plan registry: both stay as
\* the module built them.
C20_RegistriesImmutable ==
    /\ tsx_reg.MARKETS = MARKETS
    /\ tsx_reg.TOPSTEPX_ACCOUNTS = TOPSTEPX_ACCOUNTS

\* after an accepted calculation on edited fields, a copy, a plan change that
\* overwrote a typed balance and a rejected calculation
C20_Witness ==
    /\ tsx_box = "Input error"
    /\ tsx_clip # NoText
    /\ tsx_has_result
    /\ tsx_accepted # NotYet
    /\ tsx_accepted.acct_var = IntText(1000)
    /\ tsx.acct_plan_var = "150K Express"
    /\ tsx.acct_var = IntText(150000)
    /\ tsx_reg = tsx_globals

\* the result on display was computed for MES, zone width 18, no ATR, no
\* custom target 2, a risk budget of $1000, the 50K Express plan and a
\* realized profit of 1500
Scenario21(r) ==
    /\ r.market = "MES (Micro ES)"
    /\ r.tick = Rat(125, 100) /\ r.tpp = 4
    /\ r.zw = 18
    /\ r.atr_val = R(0)
    /\ r.custom_t2 = 0
    /\ r.max_risk = R(1000)
    /\ r.plan = "50K Express"
    /\ r.realized_profit = R(1500)

\* C21: for that input the result is per-contract risk $22.50, 44 contracts
\* by risk, targets 36 and 90, 111 contracts by daily loss, 6 by the scaling
\* plan, an enforced maximum of 6, and the scaling-plan warning alone.
C21_Scenario ==
    (tsx_has_result /\ Scenario21(tsx_out)) =>
        /\ tsx_out.per_ct_risk = Rat(2250, 100)
        /\ tsx_out.max_cts_by_risk = 44
        /\ tsx_out.t1_ticks = 36
        /\ tsx_out.t2_ticks = 90
        /\ tsx_out.max_cts_daily = 111
        /\ tsx_out.max_cts_scaling = 6
        /\ tsx_out.enforced_max_cts = 6
        /\ tsx_out.warnings = <<W_SCALING>>

\* the scenario's result is on display
C21_Witness ==
    /\ tsx_has_result
    /\ Scenario21(tsx_out)
    /\ tsx_out.enforced_max_cts = 6
    /\ tsx_box = "shown"

\* the fields a calculation cannot do without hold acceptable numbers
RequiredOk(f) ==
    /\ IntOk(f.zw_var) /\ f.zw_var.v[1] > 0
    /\ FloatOk(f.acct_var) /\ f.acct_var.v[1] > 0
    /\ FloatOk(f.risk_var) /\ f.risk_var.v[1] > 0
    /\ FloatOk(f.split_var)

\* C22: an empty optional field resolves to its default and the calculation
\* proceeds without error: empty ATR is 0 (no buffer), empty ATR multiplier is
\* 2%, empty custom target 2 is 0 (target 2 is 5 x ZW), empty realized
\* profit is 0 (the base scaling tier).
C22_BlankDefaults ==
    /\ (tsx_box # "" /\ RequiredOk(tsx)
        /\ tsx.atr_var = Blank /\ tsx.atr_mult_var = Blank
        /\ tsx.custom_t2_var = Blank /\ tsx.realized_profit_var = Blank)
         => tsx_box = "shown"
    /\ (tsx_has_result /\ tsx.atr_var = Blank) =>
            /\ tsx_out.atr_val = R(0)
            /\ tsx_out.atr_buffer_ticks = 0
            /\ tsx_out.final_sl_ticks = tsx_out.zw
    /\ (tsx_has_result /\ tsx.atr_mult_var = Blank) => tsx_out.atr_mult = Rat(2, 100)
    /\ (tsx_has_result /\ tsx.custom_t2_var = Blank) =>
            /\ tsx_out.custom_t2 = 0
            /\ tsx_out.t2_ticks = 5 * tsx_out.zw
    /\ (tsx_has_result /\ tsx.realized_profit_var = Blank) =>
            /\ tsx_out.realized_profit = R(0)
            /\ tsx_out.max_cts_scaling =
                 TOPSTEPX_ACCOUNTS[tsx_out.plan].scaling_plan[1].contracts
    /\ (v15_box # "" /\ RequiredOk(v15)
        /\ v15.atr_var = Blank /\ v15.atr_mult_var = Blank /\ v15.custom_t2_var = Blank)
         => v15_box = "shown"
    /\ (v15_has_result /\ v15.atr_var = Blank) =>
            /\ v15_out.atr_val = R(0)
            /\ v15_out.atr_buffer_ticks = 0
            /\ v15_out.sl_ticks = v15_out.zw
    /\ (v15_has_result /\ v15.atr_mult_var = Blank) => v15_out.atr_mult = Rat(2, 100)
    /\ (v15_has_result /\ v15.custom_t2_var = Blank) =>
            /\ v15_out.custom_t2 = 0
            /\ v15_out.t2_ticks = 5 * v15_out.zw

\* both tools display a result computed with every optional field empty
C22_Witness ==
    /\ tsx_box = "shown" /\ v15_box = "shown"
    /\ tsx.atr_var = Blank /\ tsx.atr_mult_var = Blank
    /\ tsx.custom_t2_var = Blank /\ tsx.realized_profit_var = Blank
    /\ v15.atr_var = Blank /\ v15.atr_mult_var = Blank /\ v15.custom_t2_var = Blank
    /\ tsx_out.atr_mult = Rat(2, 100) /\ v15_out.atr_mult = Rat(2, 100)

\* C23: every result the TopstepX calc displays has its five contract counts
\* (by risk, by daily loss, by trailing drawdown, by scaling plan, enforced)
\* at or above 0.
C23_CountsNonNegative ==
    tsx_has_result =>
        /\ tsx_out.max_cts_by_risk >= 0
        /\ tsx_out.max_cts_daily >= 0
        /\ tsx_out.max_cts_trailing >= 0
        /\ tsx_out.max_cts_scaling >= 0
        /\ tsx_out.enforced_max_cts >= 0

\* w is one of the warnings of the result r
Warned(r, w) == \E i \in 1..Len(r.warnings) : r.warnings[i] = w

\* C24: whenever the TopstepX result warns that the per-contract risk exceeds
\* the daily loss limit, the daily-loss cap and the enforced maximum are 0;
\* whenever it warns that the per-contract risk exceeds the trailing
\* drawdown, the trailing cap and the enforced maximum are 0.
C24_BreachingContractNotAllowed ==
    tsx_has_result =>
        /\ Warned(tsx_out, W_PER_CT_DAILY) =>
              (tsx_out.max_cts_daily = 0 /\ tsx_out.enforced_max_cts = 0)
        /\ Warned(tsx_out, W_PER_CT_TRAILING) =>
              (tsx_out.max_cts_trailing = 0 /\ tsx_out.enforced_max_cts = 0)

\* a result whose single contract risks more than both limits of its plan
C24_Witness ==
    /\ tsx_has_result
    /\ Warned(tsx_out, W_PER_CT_DAILY)
    /\ Warned(tsx_out, W_PER_CT_TRAILING)
    /\ RGt(tsx_out.per_ct_risk, R(tsx_out.daily_loss_limit))
    /\ tsx_out.max_cts_by_risk > 0
    /\ tsx_out.enforced_max_cts = 0

\* the contract symbol a key of MARKETS starts with
SymbolOf ==
    "MES (Micro ES)" :> "MES" @@ "ES  (E-mini ES)" :> "ES" @@ "MNQ (Micro NQ)" :> "MNQ"
    @@ "NQ  (E-mini NQ)" :> "NQ" @@ "MYM (Micro YM)" :> "MYM" @@ "YM  (E-mini YM)" :> "YM"
    @@ "M2K (Micro RTY)" :> "M2K" @@ "RTY (E-mini RTY)" :> "RTY" @@ "MCL (Micro WTI Crude)" :> "MCL"
    @@ "CL  (WTI Crude Oil)" :> "CL" @@ "MGC (Micro Gold)" :> "MGC" @@ "GC  (Gold)" :> "GC"
    @@ "SIL (Micro Silver)" :> "SIL" @@ "SI  (Silver)" :> "SI" @@ "HG  (Copper)" :> "HG"
    @@ "ZT (2Y Note)" :> "ZT" @@ "ZF (5Y Note)" :> "ZF" @@ "ZN (10Y Note)" :> "ZN"
    @@ "ZB (30Y Bond)" :> "ZB" @@ "M6E (Micro EUR/USD)" :> "M6E" @@ "6E  (Euro FX)" :> "6E"

\* C25: the MARKETS tables of the TopstepX and v15 tools are identical, and
\* every market whose symbol is also in CONTRACT_SPECS has the same tick
\* value there and a tick size of 1 / ticks_per_point; so results of the
\* TopstepX and mes tools for the same market carry the same risk per tick.
C25_RegistriesAgree ==
    /\ tsx_reg.MARKETS = V15_MARKETS
    /\ \A k \in DOMAIN tsx_reg.MARKETS :
          SymbolOf[k] \in DOMAIN CONTRACT_SPECS =>
              /\ tsx_reg.MARKETS[k].tick_value = CONTRACT_SPECS[SymbolOf[k]].tick_value
              /\ RMul(CONTRACT_SPECS[SymbolOf[k]].tick_size,
                      R(tsx_reg.MARKETS[k].ticks_per_point)) = R(1)
    /\ (tsx_has_result /\ mes_box = "shown" /\ SymbolOf[tsx_out.market] = mes_out.symbol) =>
          RMul(tsx_out.per_ct_risk, mes_out.ticks)
            = RMul(mes_out.per_contract_risk, R(tsx_out.final_sl_ticks))

\* the two guardrail labels show the limits of the selected plan
LabelsOfSelectedPlan ==
    tsx_labels = labels_of(tsx_reg.TOPSTEPX_ACCOUNTS[tsx.acct_plan_var])

\* C26: whatever plans are selected, balances typed and calculations run,
\* the daily-loss and trailing-drawdown labels are those of the selected
\* plan; and a plan selection sets the balance field to the starting balance
\* of that plan and leaves the displayed result as it was.
C26_LabelsFollowPlan ==
    /\ []LabelsOfSelectedPlan
    /\ [][update_account_fields =>
            /\ tsx'.acct_var =
                 IntText(tsx_reg.TOPSTEPX_ACCOUNTS[tsx'.acct_plan_var].starting_balance)
            /\ tsx_out' = tsx_out
            /\ tsx_box' = tsx_box]_vars

\* a result computed from a typed balance of 1000 on the 50K plan is still
\* displayed after the 150K plan was selected, which replaced the balance
C26_Witness ==
    /\ tsx.acct_plan_var = "150K Express"
    /\ tsx.acct_var = IntText(150000)
    /\ tsx_accepted.acct_plan_var = "50K Express"
    /\ tsx_accepted.acct_var = IntText(1000)
    /\ tsx_out = tsx_compute(tsx_accepted)
    /\ tsx_labels = labels_of(tsx_reg.TOPSTEPX_ACCOUNTS["150K Express"])
    /\ tsx_labels # labels_of(tsx_reg.TOPSTEPX_ACCOUNTS["50K Express"])

RPlus(a, b) == Rat(a[1] * b[2] + b[1] * a[2], a[2] * b[2])

\* what a Calculate click of the mes tool must do from fields f with the
\* previous result old: out and box are the result and message box after it
SizedAsSpecified(f, old, out, box) ==
    LET spec == CONTRACT_SPECS[DISPLAY_TO_SYMBOL[f.contract_var]]
        account_risk == f.risk_entry.v
        zone_width == f.zone_entry.v
        positive == /\ f.risk_entry.k \in {"int", "dec"} /\ RGt(account_risk, R(0))
                    /\ f.zone_entry.k \in {"int", "dec"} /\ RGt(zone_width, R(0))
        per_contract_risk == RMul(RDiv(zone_width, spec.tick_size), spec.tick_value)
    IN  IF positive /\ RGe(account_risk, per_contract_risk)
        THEN /\ box = "shown"
             /\ out.per_contract_risk = per_contract_risk
             /\ out.contracts >= 1
             /\ RLe(RMul(R(out.contracts), per_contract_risk), account_risk)
             /\ RLt(account_risk, RMul(R(out.contracts + 1), per_contract_risk))
             /\ RPlus(out.used_risk, out.unused_risk) = account_risk
             /\ RGe(out.unused_risk, R(0))
             /\ RLt(out.unused_risk, per_contract_risk)
        ELSE /\ box = "Input error"
             /\ out = old

\* C27: a Calculate click of the mes tool with positive risk and zone width
\* sizes contracts = floor(account_risk / per_contract_risk) with
\* per_contract_risk = (zone_width / tick_size) * tick_value; it displays the
\* result only when contracts >= 1, and then used + unused = account_risk
\* with 0 <= unused < per_contract_risk; otherwise (contracts = 0, or a
\* non-numeric or non-positive input) it reports an error and the result
\* displayed before stays.
C27_MesSizing ==
    /\ [](mes_out # NoText => mes_out.contracts >= 1)
    /\ [][mes_calculate => SizedAsSpecified(mes, mes_out, mes_out', mes_box')]_vars

\* a result with unused risk is still displayed after a click that failed
C27_Witness ==
    /\ mes_box = "Input error"
    /\ mes_out # NoText
    /\ mes_out.contracts = 333
    /\ mes_out.unused_risk = Rat(1, 2)
    /\ mes.risk_entry = IntText(1)

\* row i of the list widget shows the file name and description of
\* attachment i
SameFile(item, attachment) ==
    item = <<attachment.path[2], attachment.description>>

\* C28: whatever files are added (or the dialog cancelled) and whatever rows
\* are removed, one or several at once, the attachment manager holds at most
\* max_files = 8 attachments, and its attachments list and its list widget
\* have the same length, entry i of each being the same file.
C28_AttachmentsAligned ==
    /\ Len(attachments) <= 8
    /\ Len(list_widget) = Len(attachments)
    /\ \A i \in 1..Len(attachments) : SameFile(list_widget[i], attachments[i])

\* the list is full, holds different files, and a further add was refused
C28_Witness ==
    /\ Len(attachments) = 8
    /\ app_box = <<"Limit">>
    /\ attachments[1].path # attachments[8].path
    /\ list_widget[1] # list_widget[8]

\* n attachments that exist on disk
Handed(n) == [i \in 1..n |-> [path |-> <<"/a", "x.png">>, description |-> ""]]

\* some outcome of create_claim on the attached files is a response
MaySucceed ==
    \E disk \in SUBSET AttachPaths : create_claim(state.client, attachments, disk).raised = ""

\* C29: the Dell client's create_claim raises ValueError for no attachment
\* and for more than 8, and returns a response for 1 to 8 (existing) files;
\* and a Submit click whose create_claim fails opens "Submit failed", stays
\* on the claim form and leaves the session state with its cached claims as
\* they were; only a create_claim that returned leads to the dashboard.
C29_SubmitFailure ==
    /\ [](\A n \in 0..MaxHanded :
            /\ (dell_create_claim(Handed(n), AttachPaths).raised = "ValueError")
                  <=> (n = 0 \/ n > 8)
            /\ (n \in 1..8) => dell_create_claim(Handed(n), AttachPaths).raised = "")
    /\ [][\/ app_box' = <<"Missing data">> /\ stack' = stack /\ state' = state
          \/ app_box' = <<"Submit failed">> /\ stack' = stack /\ state' = state
          \/ /\ app_box' # <<>>
             /\ Head(app_box') = "Claim submitted"
             /\ stack' = "dashboard_page"
             /\ MaySucceed
          \/ attachments' # attachments
          \/ ~emit_submit]_vars

\* a Dell session with cached claims whose submit without attachment failed
C29_Witness ==
    /\ app_box = <<"Submit failed">>
    /\ stack = "claim_page"
    /\ state.client.cls = "DellTechDirectClient"
    /\ attachments = <<>>
    /\ state.claims = DellSample

\* the session of st is authenticated and its vendor names its client
Authenticated(st) ==
    /\ st.client # NoClient
    /\ st.username \notin {None, ""}
    /\ st.vendor # None
    /\ st.client.cls = make_client(st.vendor).client.cls
    /\ is_authenticated(st)

\* C30: the window starts on the login page; on the dashboard and on the
\* claim form the session is authenticated (client and username set, the
\* vendor naming the client's vendor); the login page is left only by a login
\* that succeeded; a handle_login that failed leaves vendor, username, client
\* and the current page as they were.
C30_AuthenticatedPages ==
    /\ stack = "login_page"
    /\ [](stack \in {"dashboard_page", "claim_page"} => Authenticated(state))
    /\ [][(stack = "login_page" /\ stack' # "login_page") =>
             (emit_login /\ stack' = "dashboard_page" /\ Authenticated(state')
                /\ "Login failed" \notin {app_box'[i] : i \in 1..Len(app_box')})]_vars
    /\ [][login_requested_unsupported =>
             (/\ app_box' = <<"Login failed">>
              /\ state' = state
              /\ stack' = stack)]_vars

\* a login that failed on the claim form of an authenticated Lenovo session
C30_Witness ==
    /\ app_box = <<"Login failed">>
    /\ stack = "claim_page"
    /\ state.vendor = "Lenovo"
    /\ state.username = "alice"
    /\ state.client.cls = "LenovoClient"

=============================================================================
